---- MODULE Spec2Model ----
(***************************************************************************)
(* Model of bdsg's memory-mapped allocation layer (mapped_structs.hpp).    *)
(*                                                                         *)
(* Part 1 (specification Spec): the arena allocator ArenaAllocatorRef<T>   *)
(* working on one MappingContext.  allocate and deallocate are translated  *)
(* from the header; the block helpers of ArenaAllocatorBlockRef (split,    *)
(* detach, attach, coalesce, immediately_before), whose bodies live in a   *)
(* translation unit that is not part of the sources, are modelled from     *)
(* their declarations' doc comments and the design document.               *)
(*                                                                         *)
(* Part 2 (specification SpecManager): yomo::Manager with its chains and   *)
(* two segment indexes, yomo::Pointer<T>, yomo::Allocator<T> and           *)
(* UniqueMappedPointer<T>.  Pointer, Allocator and UniqueMappedPointer are *)
(* translated from the header; the Manager's functions are only declared   *)
(* there and are modelled from their doc comments and the design document. *)
(*                                                                         *)
(* Part 3 (specifications SpecThreads, SpecThreadsFair): threads calling   *)
(* the Manager concurrently, under its readers-writer lock on the indexes  *)
(* and the lock of each chain's allocator.  Only the declarations of the   *)
(* locks are in the header; where they are taken is modelled from the      *)
(* design document.                                                        *)
(*                                                                         *)
(* Part 4 (one specification per group of functions): single calls of the  *)
(* header's small classes, with arguments drawn from bounded sets          *)
(* (SpecDeref, SpecCell); the Manager's chain functions called directly    *)
(* (SpecChain); CompatVector<T> over std::allocator, translated from the   *)
(* header (SpecVector); the arena allocator's root (SpecRoot); the handle  *)
(* called whether or not it owns a chain (SpecHandle, SpecInPlace); copies *)
(* of offset_ptr<T> (SpecOffset); the iterator of PackedSet, from          *)
(* packed_structs.cpp (SpecSet, SpecSetFair).                              *)
(***************************************************************************)
EXTENDS Integers, Sequences, FiniteSets, TLC

\* ------------------------------------------------------------------ bounds

\* Width in bits of the model's size_t (the program's is 64).  Offsets are
\* computed modulo 2^WordBits, as the unsigned subtraction of the code is.
WordBits == 20
\* No growth is modelled once the arena would exceed this many bytes.
MaxArena == 420
\* sizeof(T) of the allocator's element type.
SizeofT == 1
\* Number of allocate and deallocate calls in a run.
MaxCalls == 7

\* Part 2: number of UniqueMappedPointer handles.
MaxHandles == 1
\* Part 2: number of places at which the system can map a segment.
MaxSlots == 3
\* Part 2: no chain grows beyond this many bytes; also the distance between
\* two places at which segments are mapped.
MaxChainBytes == 4096
\* Part 2: number of open files.
MaxFd == 1
\* Part 2: number of operations in a run.
MaxSteps == 5
\* Part 2: sizeof(T) of the root object a handle owns.
SizeofRoot == 8
\* Part 3: number of threads.
MaxThreads == 2
\* Part 3: number of operations the threads start in a run.
MaxOps == 3
\* CompatVector: vectors, largest length asked for, largest item value, buffers
MaxVectors == 2
MaxLen == 2
MaxItem == 1
MaxBuffers == 3
\* Slots of the largest PackedSet table.
MaxTable == 4
\* CompatVector::RESIZE_FACTOR
RESIZE_FACTOR == 2

\* ------------------------------------------------------- program constants

\* sizeof(big_endian<size_t>): every stored pointer and size is one such cell.
CellSize == 8

\* std::numeric_limits<size_t>::max(), the stored form of a null pointer.
SizeMax == (2 ^ WordBits) - 1

\* sizeof(ArenaAllocatorBlockRef::body_t): prev, next, size.
BlockHeaderSize == 3 * CellSize

\* sizeof(ArenaAllocatorRef<T>::body_t): first_free, last_free.
ArenaBodySize == 2 * CellSize

\* ArenaAllocatorRef::reserved_space
reserved_space == ArenaBodySize + BlockHeaderSize

\* The null reference base_ref_t() (context == nullptr).
NullRef == -1

\* Numbers of items a caller asks allocate for.
AllocCounts == {8, 16, 40}

Max(a, b) == IF a >= b THEN a ELSE b

\* ------------------------------------------------------------------- state

VARIABLES
    ctx_size,    \* MappingContext::size
    mem,         \* the block headers written in the arena: position -> [prev, next, size]
    first_free,  \* body_t::first_free, as the stored offset
    last_free,   \* body_t::last_free, as the stored offset
    live,        \* positions handed out by allocate and not yet deallocated -> bytes asked
    last,        \* what the last call did
    calls,       \* number of calls made so far
    batch        \* observer: a batch of allocations and the free list it began with

arena_vars == <<ctx_size, mem, first_free, last_free, live, last, calls, batch>>

VARIABLES
    chain_space_index,    \* Manager::chain_space_index: chain -> (start position -> base address)
    address_space_index,  \* Manager::address_space_index: base address -> LinkRecord
    chain_mem,            \* the bytes of each chain: prefix, allocator header, blocks, user data
    files,                \* the bytes of each open file
    handles,              \* UniqueMappedPointer<T>::chain of each handle
    open_fds,             \* the open file descriptors of the process
    m_last,               \* what the last operation did
    steps,                \* number of operations made so far
    track,                \* observer: each handle's progress through save, reset, load
    origin                \* observer: chain returned by get_dissociated_chain -> its source

manager_vars == <<chain_space_index, address_space_index, chain_mem, files,
                  handles, open_fds, m_last, steps, track, origin>>

VARIABLES
    pc,               \* where each thread is in the operation it runs
    op,               \* each thread's operation: arguments, locals, result
    allocator_mutex,  \* chain -> the thread inside its allocator, or 0
    index_lock,       \* Manager::mutex: the writer (or 0) and the readers
    owned             \* the allocations the threads were handed and still hold

thread_vars == <<pc, op, allocator_mutex, index_lock, owned>>

VARIABLES
    probe             \* Part 4: the call under study: its arguments and its outcome

VARIABLES
    vectors,          \* each CompatVector: whether it exists, length, reserved_length, first
    heap,             \* every buffer the allocator handed out: its cells, and how often freed
    v_last            \* what the last vector operation did

vector_vars == <<vectors, heap, v_last>>

vars == <<arena_vars, manager_vars, thread_vars, probe, vector_vars>>

\* ------------------------------------------------------ offset_to<ref_t>

\* offset_to::operator=(const ref_t&): the offset from the pointer's own
\* position to the target, or the maximum value for a null reference.
offset_to_assign(our_position, other) ==
    IF other # NullRef
    THEN (other - our_position) % (SizeMax + 1)
    ELSE SizeMax

\* offset_to::get(context): the reference the stored offset designates.
offset_to_get(our_position, offset) ==
    IF offset # SizeMax
    THEN (our_position + offset) % (SizeMax + 1)
    ELSE NullRef

\* offset_to::operator==(const ref_t&)
offset_to_eq(our_position, offset, other) ==
    IF offset = SizeMax \/ other = NullRef
    THEN offset = SizeMax /\ other = NullRef
    ELSE (our_position + offset) % (SizeMax + 1) = other

\* Positions of the fields inside the bodies.
PrevField(pos) == pos
NextField(pos) == pos + CellSize
FirstFreeField == 0
LastFreeField == CellSize

\* --------------------------------------------- ArenaAllocatorBlockRef

get_prev(m, pos) == offset_to_get(PrevField(pos), m[pos].prev)
get_next(m, pos) == offset_to_get(NextField(pos), m[pos].next)

set_prev(m, pos, ref) ==
    [m EXCEPT ![pos].prev = offset_to_assign(PrevField(pos), ref)]
set_next(m, pos, ref) ==
    [m EXCEPT ![pos].next = offset_to_assign(NextField(pos), ref)]

\* A default-constructed body_t: null prev and next, size 0.
NewBlockBody == [prev |-> SizeMax, next |-> SizeMax, size |-> 0]

get_user_data(pos) == pos + BlockHeaderSize
get_from_data(user_data) == user_data - BlockHeaderSize

\* True if the block at a comes immediately before the block at b.
immediately_before(m, a, b) == get_user_data(a) + m[a].size = b

\* split(first_bytes): keep first_bytes in the block at pos and give the
\* rest to a new block right after it, wired into the free list after pos.
split_position(pos, first_bytes) == get_user_data(pos) + first_bytes

split(m, pos, first_bytes) ==
    LET new_pos == split_position(pos, first_bytes)
        old_next == get_next(m, pos)
        m1 == (new_pos :> [NewBlockBody EXCEPT
                  !.size = m[pos].size - first_bytes - BlockHeaderSize]) @@ m
        m2 == [m1 EXCEPT ![pos].size = first_bytes]
        m3 == set_next(set_prev(m2, new_pos, pos), new_pos, old_next)
        m4 == set_next(m3, pos, new_pos)
    IN  IF old_next # NullRef THEN set_prev(m4, old_next, new_pos) ELSE m4

\* detach(): take the block out of the free list, wiring its neighbours
\* together; the neighbours are what the call returns.
detach_neighbours(m, pos) == <<get_prev(m, pos), get_next(m, pos)>>

detach(m, pos) ==
    LET l == get_prev(m, pos)
        r == get_next(m, pos)
        m1 == IF l # NullRef THEN set_next(m, l, r) ELSE m
        m2 == IF r # NullRef THEN set_prev(m1, r, l) ELSE m1
    IN  set_next(set_prev(m2, pos, NullRef), pos, NullRef)

\* attach(left, right): put the block between left and right (either may be null).
attach(m, pos, left, right) ==
    LET m1 == set_next(set_prev(m, pos, left), pos, right)
        m2 == IF left # NullRef THEN set_next(m1, left, pos) ELSE m1
    IN  IF right # NullRef THEN set_prev(m2, right, pos) ELSE m2

\* coalesce(): the contiguous run of free blocks around pos, along the list.
\* The first block of the run takes the whole run; the headers of the others
\* stay in memory as bytes of its free space.
RECURSIVE run_first(_, _)
run_first(m, pos) ==
    LET p == get_prev(m, pos)
    IN  IF p # NullRef /\ immediately_before(m, p, pos) THEN run_first(m, p) ELSE pos

RECURSIVE run_last(_, _)
run_last(m, pos) ==
    LET n == get_next(m, pos)
    IN  IF n # NullRef /\ immediately_before(m, pos, n) THEN run_last(m, n) ELSE pos

coalesce_bounds(m, pos) == <<run_first(m, pos), run_last(m, pos)>>

coalesce(m, pos) ==
    LET f == run_first(m, pos)
        l == run_last(m, pos)
        after == get_next(m, l)
        total == (get_user_data(l) + m[l].size) - get_user_data(f)
        m2 == set_next([m EXCEPT ![f].size = total], f, after)
    IN  IF f = l THEN m
        ELSE IF after # NullRef THEN set_prev(m2, after, f) ELSE m2

\* ------------------------------------------------- the free list, observed

\* The blocks reached from `from` by following next, at most `fuel` of them.
RECURSIVE chain_from(_, _, _)
chain_from(m, from, fuel) ==
    IF from = NullRef \/ fuel = 0 \/ from \notin DOMAIN m
    THEN <<>>
    ELSE <<from>> \o chain_from(m, get_next(m, from), fuel - 1)

FirstFree == offset_to_get(FirstFreeField, first_free)
LastFree == offset_to_get(LastFreeField, last_free)

FreeList == chain_from(mem, FirstFree, Cardinality(DOMAIN mem))
FreeSet == {FreeList[i] : i \in 1..Len(FreeList)}

\* Positions and sizes of the listed blocks, with the list's two ends.
FreeListShape ==
    [first |-> FirstFree, last |-> LastFree,
     blocks |-> [i \in 1..Len(FreeList) |-> <<FreeList[i], mem[FreeList[i]].size>>]]

\* The observer follows batches: some allocations, none growing the arena,
\* then the deallocation of what they returned, with no other call between.
NoBatch == [active |-> FALSE, freeing |-> FALSE, ptrs |-> {},
            base |-> [first |-> NullRef, last |-> NullRef, blocks |-> <<>>]]

\* --------------------------------------------------- ArenaAllocatorRef<T>

\* A scan that follows next from block to block returns only if it reaches
\* its end.  One that has visited more blocks than there are headers is in a
\* cycle and never returns; Diverges stands for that.
Diverges == NullRef - 1
ScanFuel(m) == Cardinality(DOMAIN m) + 1

\* allocate's scan: the first block from `found` on whose size is not below
\* user_bytes, or the null reference.
RECURSIVE first_fit_from(_, _, _, _)
first_fit_from(m, found, user_bytes, fuel) ==
    IF fuel = 0 THEN Diverges
    ELSE IF found # NullRef /\ m[found].size < user_bytes
    THEN first_fit_from(m, get_next(m, found), user_bytes, fuel - 1)
    ELSE found

first_fit(m, found, user_bytes) == first_fit_from(m, found, user_bytes, ScanFuel(m))

\* A growth that adds only the bytes of the block asked for.
new_bytes_needed(size, block_bytes) == block_bytes

\* allocate's growth: double the arena or add the block's bytes, whichever is bigger.
new_bytes(size, block_bytes) == Max(size, block_bytes)

\* The size allocate gives the block it creates in the grown arena.
grown_block_size(user_bytes, added) == user_bytes

\* allocate's test for breaking the user data off the found block.
should_split(size, block_bytes) == size > block_bytes

\* deallocate's scan: the first listed block not before `found`, or null.
RECURSIVE find_right_from(_, _, _, _)
find_right_from(m, right, found, fuel) ==
    IF fuel = 0 THEN Diverges
    ELSE IF right # NullRef /\ right < found
    THEN find_right_from(m, get_next(m, right), found, fuel - 1)
    ELSE right

find_right(m, right, found) == find_right_from(m, right, found, ScanFuel(m))

\* deallocate's defragmentation of the run around the freed block.
defragment(m, found) == coalesce(m, found)
defragment_bounds(m, found) == coalesce_bounds(m, found)

\* ArenaAllocatorRef<T>::allocate(n).  `mark` is the observer's choice to
\* begin a batch with this call.
ArenaAllocatorRef_allocate(n, mark) ==
    LET user_bytes == n * SizeofT
        block_bytes == user_bytes + BlockHeaderSize
        scanned == first_fit(mem, FirstFree, user_bytes)
        grow == scanned = NullRef
        new_free == ctx_size
        added == new_bytes(ctx_size, block_bytes)
        found == IF grow THEN new_free ELSE scanned
        m1 == IF grow
              THEN (new_free :> [NewBlockBody EXCEPT
                       !.size = grown_block_size(user_bytes, added)]) @@ mem
              ELSE mem
        ff1 == IF grow THEN offset_to_assign(FirstFreeField, found) ELSE first_free
        lf1 == IF grow THEN offset_to_assign(LastFreeField, found) ELSE last_free
        do_split == should_split(m1[found].size, block_bytes)
        m2 == IF do_split THEN split(m1, found, user_bytes) ELSE m1
        lf2 == IF do_split /\ offset_to_eq(LastFreeField, lf1, found)
               THEN offset_to_assign(LastFreeField, split_position(found, user_bytes))
               ELSE lf1
        connected == detach_neighbours(m2, found)
        m3 == detach(m2, found)
        ff3 == IF offset_to_eq(FirstFreeField, ff1, found)
               THEN offset_to_assign(FirstFreeField, connected[1])
               ELSE ff1
        lf3 == IF offset_to_eq(LastFreeField, lf2, found)
               THEN offset_to_assign(LastFreeField, connected[2])
               ELSE lf2
        p == get_user_data(found)
        batch_open == batch.active /\ batch.ptrs # {}
    IN  /\ calls < MaxCalls
        /\ calls' = calls + 1
        /\ scanned # Diverges
        /\ grow => ctx_size + added <= MaxArena
        /\ mark => ~batch_open
        /\ ctx_size' = IF grow THEN ctx_size + added ELSE ctx_size
        /\ mem' = m3
        /\ first_free' = ff3
        /\ last_free' = lf3
        /\ live' = (p :> user_bytes) @@ live
        /\ last' = [op |-> "allocate", p |-> p, bytes |-> user_bytes,
                    grew |-> grow, split |-> do_split, dup |-> p \in DOMAIN live]
        /\ batch' = IF grow THEN NoBatch
                     ELSE IF mark
                     THEN [active |-> TRUE, freeing |-> FALSE, ptrs |-> {p},
                           base |-> FreeListShape]
                     ELSE IF batch_open /\ ~batch.freeing
                     THEN [batch EXCEPT !.ptrs = @ \cup {p}]
                     ELSE NoBatch

\* ArenaAllocatorRef<T>::deallocate(p, n); n is not used.
ArenaAllocatorRef_deallocate(p) ==
    LET found == get_from_data(p)
        right == find_right(mem, FirstFree, found)
        left == IF right = NullRef THEN LastFree ELSE get_prev(mem, right)
        m1 == attach(mem, found, left, right)
        lf1 == IF offset_to_eq(LastFreeField, last_free, left)
               THEN offset_to_assign(LastFreeField, found)
               ELSE last_free
        ff1 == IF offset_to_eq(FirstFreeField, first_free, right)
               THEN offset_to_assign(FirstFreeField, found)
               ELSE first_free
        bounds == defragment_bounds(m1, found)
        m2 == defragment(m1, found)
        lf2 == IF offset_to_eq(LastFreeField, lf1, bounds[2])
               THEN offset_to_assign(LastFreeField, bounds[1])
               ELSE lf1
    IN  /\ p \in DOMAIN live
        /\ calls < MaxCalls
        /\ calls' = calls + 1
        /\ right # Diverges
        /\ mem' = m2
        /\ first_free' = ff1
        /\ last_free' = lf2
        /\ live' = [q \in DOMAIN live \ {p} |-> live[q]]
        /\ last' = [op |-> "deallocate", p |-> p, bytes |-> live[p],
                    grew |-> FALSE, split |-> FALSE, dup |-> FALSE]
        /\ batch' = IF batch.active /\ p \in batch.ptrs
                     THEN [batch EXCEPT !.ptrs = @ \ {p}, !.freeing = TRUE]
                     ELSE NoBatch
        /\ UNCHANGED ctx_size

\* The arena after ArenaAllocatorRef(context) on an empty context: only the
\* allocator's body, with an empty free list.
ArenaInit ==
    /\ ctx_size = ArenaBodySize
    /\ mem = [q \in {} |-> NewBlockBody]
    /\ first_free = SizeMax
    /\ last_free = SizeMax
    /\ live = [q \in {} |-> 0]
    /\ last = [op |-> "construct", p |-> NullRef, bytes |-> 0,
               grew |-> FALSE, split |-> FALSE, dup |-> FALSE]
    /\ calls = 0
    /\ batch = NoBatch

Allocate ==
    /\ \E n \in AllocCounts, mark \in BOOLEAN : ArenaAllocatorRef_allocate(n, mark)
    /\ UNCHANGED <<manager_vars, thread_vars, probe, vector_vars>>

Deallocate ==
    /\ \E p \in DOMAIN live : ArenaAllocatorRef_deallocate(p)
    /\ UNCHANGED <<manager_vars, thread_vars, probe, vector_vars>>

\* ------------------------------------------------ the arena's blocks, observed

\* The blocks met walking the arena from the end of the allocator's body,
\* each block's header and user bytes leading to the next block's header.
RECURSIVE tiling_from(_, _)
tiling_from(pos, fuel) ==
    IF pos >= ctx_size \/ fuel = 0 \/ pos \notin DOMAIN mem
    THEN <<>>
    ELSE <<pos>> \o tiling_from(get_user_data(pos) + mem[pos].size, fuel - 1)

Tiling == tiling_from(ArenaBodySize, Cardinality(DOMAIN mem))
TilingSet == {Tiling[i] : i \in 1..Len(Tiling)}

RECURSIVE tiling_bytes(_)
tiling_bytes(blocks) ==
    IF blocks = <<>> THEN 0
    ELSE BlockHeaderSize + mem[Head(blocks)].size + tiling_bytes(Tail(blocks))

LiveBlocks == {get_from_data(p) : p \in DOMAIN live}
Blocks == TilingSet \cup LiveBlocks

IsNullPtr(offset) == offset = SizeMax

\* ======================================================================
\* Part 2: yomo::Manager, Pointer<T>, Allocator<T>, UniqueMappedPointer<T>
\* ======================================================================

\* Manager::NO_CHAIN
NO_CHAIN == 0
\* Manager::BASE_SIZE
BASE_SIZE == 1024
\* Manager::MAX_PREFIX_SIZE
MAX_PREFIX_SIZE == 16
\* The file descriptor standing for "no file": the default of open_chain's
\* and copy_chain's fd parameter.
NoFd == 0
\* The null host address.
nullptr == 0
\* sizeof(Manager::AllocatorHeader): first_free, last_free.
AllocatorHeaderSize == 2 * CellSize
\* sizeof(Manager::AllocatorBlock): prev, next, size.
AllocatorBlockSize == 3 * CellSize

\* What a lookup that throws yields in place of an address or a position.
Thrown == NullRef - 1

Handles == 1..MaxHandles
Fds == 3..(2 + MaxFd)
\* Host addresses at which the system can place a new mapping.
Bases == {k * MaxChainBytes : k \in 1..MaxSlots}
\* Prefixes callers pass to construct and load.
Prefixes == {"", "MAGIC"}
\* Numbers of bytes callers ask an Allocator<char> for.
ByteCounts == {8, 2000}
\* Values callers write into their allocations.
Values == {1}

MaxOf(S) == CHOOSE x \in S : \A y \in S : y <= x
MinOf(S) == CHOOSE x \in S : \A y \in S : x <= y

\* ------------------------------------------------------ bytes of a chain

\* A chain's (or file's) bytes, by what they hold: total size, the prefix,
\* the AllocatorHeader's two stored positions, the AllocatorBlock headers
\* (position -> prev, next, size; positions stored as Pointer stores them,
\* SizeMax for null) and the written user cells (position of the user data
\* -> what was written: a plain value, or the stored position of a Pointer).
NoBlocks == [q \in {} |-> [prev |-> SizeMax, next |-> SizeMax, size |-> 0]]
NoData == [q \in {} |-> [kind |-> "val", v |-> 0]]
EmptyFile == [size |-> 0, prefix |-> "", first_free |-> SizeMax,
              last_free |-> SizeMax, blocks |-> NoBlocks, data |-> NoData]

\* The position of the AllocatorHeader and of the first block after it.
HeaderPosition(prefix) == Len(prefix)
FirstBlockPosition(prefix) == Len(prefix) + AllocatorHeaderSize

\* An allocator set up at the start of the link, whatever the prefix.
set_up_allocator_at_start(prefix, size) ==
    [size |-> size, prefix |-> prefix,
     first_free |-> AllocatorHeaderSize, last_free |-> AllocatorHeaderSize,
     blocks |-> (AllocatorHeaderSize :>
                    [prev |-> SizeMax, next |-> SizeMax,
                     size |-> size - AllocatorHeaderSize - AllocatorBlockSize]),
     data |-> NoData]

\* set_up_allocator_at: a fresh header and one maximal free block spanning
\* the rest of the first link.
set_up_allocator_at(prefix, size) ==
    LET first == FirstBlockPosition(prefix)
    IN  [size |-> size, prefix |-> prefix, first_free |-> first, last_free |-> first,
         blocks |-> (first :> [prev |-> SizeMax, next |-> SizeMax,
                               size |-> size - first - AllocatorBlockSize]),
         data |-> NoData]

\* Positions of the blocks on a chain's free list, from first_free by next.
RECURSIVE free_from(_, _)
free_from(ct, pos) ==
    IF pos = SizeMax THEN <<>>
    ELSE <<pos>> \o free_from(ct, ct.blocks[pos].next)

FreeBlocks(ct) == free_from(ct, ct.first_free)
FreeBlockSet(ct) == {FreeBlocks(ct)[i] : i \in 1..Len(FreeBlocks(ct))}
\* Positions of the user data of the allocated blocks.
Allocated(ct) == {b + AllocatorBlockSize : b \in DOMAIN ct.blocks \ FreeBlockSet(ct)}

\* ------------------------------------------- the indexes and the lookups

\* Manager::LinkRecord
LinkRecord(chain, start, length, fd) ==
    [chain |-> chain, start |-> start, length |-> length, fd |-> fd]

\* The Manager's static state and the memory it maps, as one value.
Cur == [csi |-> chain_space_index, asi |-> address_space_index,
        mem |-> chain_mem, files |-> files]

Chains(M) == DOMAIN M.csi
\* The segments of a chain.
Segments(M, chain) ==
    {[base |-> M.csi[chain][s], start |-> s, length |-> M.asi[M.csi[chain][s]].length] :
        s \in DOMAIN M.csi[chain]}
TotalSize(M, chain) ==
    LET s == MaxOf(DOMAIN M.csi[chain])
    IN  s + M.asi[M.csi[chain][s]].length
ChainFd(M, chain) == M.asi[M.csi[chain][0]].fd

\* Manager::get_chain
get_chain(M, address) ==
    LET below == {b \in DOMAIN M.asi : b <= address}
        b == MaxOf(below)
    IN  IF below = {} THEN NO_CHAIN
        ELSE IF address < b + M.asi[b].length THEN M.asi[b].chain
        ELSE NO_CHAIN

\* Manager::get_address_in_chain (length = 0)
get_address_in_chain(M, chain, position) ==
    IF chain \notin DOMAIN M.csi THEN Thrown
    ELSE LET below == {s \in DOMAIN M.csi[chain] : s <= position}
             s == MaxOf(below)
             b == M.csi[chain][s]
         IN  IF below = {} THEN Thrown
             ELSE IF position < s + M.asi[b].length THEN b + (position - s)
             ELSE Thrown

\* Manager::get_chain_and_position (length = 0)
get_chain_and_position(M, address) ==
    LET below == {b \in DOMAIN M.asi : b <= address}
        b == MaxOf(below)
    IN  IF get_chain(M, address) = NO_CHAIN
        THEN [chain |-> NO_CHAIN, position |-> Thrown]
        ELSE [chain |-> M.asi[b].chain, position |-> M.asi[b].start + (address - b)]

\* Manager::get_address_in_same_chain
get_address_in_same_chain(M, here, position) ==
    get_address_in_chain(M, get_chain(M, here), position)

\* Manager::get_position_in_same_chain
get_position_in_same_chain(M, here, address) ==
    LET there == get_chain_and_position(M, address)
    IN  IF there.chain = NO_CHAIN \/ there.chain # get_chain(M, here)
        THEN Thrown
        ELSE there.position

\* ------------------------------------------------------------ Pointer<T>

\* A resolution that looks only at the chain's last link instead of the link
\* holding the position.
Pointer_get_in_last_link(M, self, position) ==
    IF position = SizeMax
    THEN nullptr
    ELSE LET s == MaxOf(DOMAIN M.csi[get_chain(M, self)])
         IN  M.csi[get_chain(M, self)][s] + (position - s)

\* The position a default-constructed Pointer<T> stores.
Pointer_default == SizeMax

\* Pointer<T>::operator bool
Pointer_bool(position) == position # SizeMax

\* A get that asks the Manager for the pointer's own chain before it looks
\* at the position.
Pointer_get_chain_first(M, self, position) ==
    IF get_chain(M, self) = NO_CHAIN
    THEN Thrown
    ELSE IF position = SizeMax
    THEN nullptr
    ELSE get_address_in_same_chain(M, self, position)

\* Pointer<T>::get of a pointer that sits at address self and stores position.
Pointer_get(M, self, position) ==
    IF position = SizeMax
    THEN nullptr
    ELSE get_address_in_same_chain(M, self, position)

\* An assignment that takes the position of the target in whatever chain
\* holds it, and null for a target in no chain.
Pointer_assign_unchecked(M, self, addr) ==
    IF get_chain(M, addr) = NO_CHAIN
    THEN SizeMax
    ELSE get_chain_and_position(M, addr).position

\* Pointer<T>::operator=(T* addr): the position the pointer at self stores.
Pointer_assign(M, self, addr) ==
    IF addr = nullptr
    THEN SizeMax
    ELSE get_position_in_same_chain(M, self, addr)

\* ------------------------------------------- Manager::AllocatorBlock

\* Pointers between blocks of one chain are resolved within that chain, so
\* the block operations work on stored positions directly.

\* AllocatorBlock::immediately_before
AllocatorBlock_immediately_before(ct, a, b) ==
    a + AllocatorBlockSize + ct.blocks[a].size = b

\* AllocatorBlock::split, with the allocator's update of last_free.
AllocatorBlock_split(ct, pos, first_bytes) ==
    LET old == ct.blocks[pos]
        np == pos + AllocatorBlockSize + first_bytes
        nb == [prev |-> pos, next |-> old.next,
               size |-> old.size - first_bytes - AllocatorBlockSize]
        b1 == (np :> nb) @@
              [ct.blocks EXCEPT ![pos] = [@ EXCEPT !.next = np, !.size = first_bytes]]
        b2 == IF old.next # SizeMax THEN [b1 EXCEPT ![old.next].prev = np] ELSE b1
    IN  [ct EXCEPT !.blocks = b2,
                   !.last_free = IF @ = pos THEN np ELSE @]

\* AllocatorBlock::detach, with the allocator's update of first_free and
\* last_free.
AllocatorBlock_detach(ct, pos) ==
    LET blk == ct.blocks[pos]
        b1 == IF blk.prev # SizeMax
              THEN [ct.blocks EXCEPT ![blk.prev].next = blk.next]
              ELSE ct.blocks
        b2 == IF blk.next # SizeMax
              THEN [b1 EXCEPT ![blk.next].prev = blk.prev]
              ELSE b1
        b3 == [b2 EXCEPT ![pos] = [@ EXCEPT !.prev = SizeMax, !.next = SizeMax]]
    IN  [ct EXCEPT !.blocks = b3,
                   !.first_free = IF @ = pos THEN blk.next ELSE @,
                   !.last_free = IF @ = pos THEN blk.prev ELSE @]

\* AllocatorBlock::attach between left and right (either may be null), with
\* the allocator's update of first_free and last_free.
AllocatorBlock_attach(ct, pos, left, right) ==
    LET b1 == [ct.blocks EXCEPT ![pos] = [@ EXCEPT !.prev = left, !.next = right]]
        b2 == IF left # SizeMax THEN [b1 EXCEPT ![left].next = pos] ELSE b1
        b3 == IF right # SizeMax THEN [b2 EXCEPT ![right].prev = pos] ELSE b2
    IN  [ct EXCEPT !.blocks = b3,
                   !.first_free = IF left = SizeMax THEN pos ELSE @,
                   !.last_free = IF right = SizeMax THEN pos ELSE @]

\* The start of the link holding a position, among a chain's link starts.
LinkStart(starts, pos) == MaxOf({s \in starts : s <= pos})

\* A merge test that looks at chain positions only.
Mergeable_by_position(ct, starts, a, b) == AllocatorBlock_immediately_before(ct, a, b)

\* Two free blocks merge when the first ends where the second begins and
\* both lie in one link.
Mergeable(ct, starts, a, b) ==
    /\ AllocatorBlock_immediately_before(ct, a, b)
    /\ LinkStart(starts, a) = LinkStart(starts, b)

\* The first block of the run of mergeable free blocks around pos.
RECURSIVE leftmost_in_run(_, _, _)
leftmost_in_run(ct, starts, pos) ==
    LET p == ct.blocks[pos].prev
    IN  IF p # SizeMax /\ Mergeable(ct, starts, p, pos)
        THEN leftmost_in_run(ct, starts, p)
        ELSE pos

\* Absorb into pos the mergeable free blocks that follow it.
RECURSIVE absorb_right(_, _, _)
absorb_right(ct, starts, pos) ==
    LET nx == ct.blocks[pos].next
        gone == ct.blocks[nx]
        b1 == [q \in DOMAIN ct.blocks \ {nx} |->
                 IF q = pos
                 THEN [prev |-> ct.blocks[pos].prev, next |-> gone.next,
                       size |-> ct.blocks[pos].size + AllocatorBlockSize + gone.size]
                 ELSE IF q = gone.next
                 THEN [ct.blocks[q] EXCEPT !.prev = pos]
                 ELSE ct.blocks[q]]
    IN  IF nx # SizeMax /\ Mergeable(ct, starts, pos, nx)
        THEN absorb_right([ct EXCEPT !.blocks = b1,
                                     !.last_free = IF @ = nx THEN pos ELSE @],
                          starts, pos)
        ELSE ct

\* AllocatorBlock::coalesce
AllocatorBlock_coalesce(ct, starts, pos) ==
    absorb_right(ct, starts, leftmost_in_run(ct, starts, pos))

\* First-fit scan of the free list from pos for a block of at least bytes.
RECURSIVE find_fit(_, _, _)
find_fit(ct, pos, bytes) ==
    IF pos = SizeMax THEN SizeMax
    ELSE IF ct.blocks[pos].size >= bytes THEN pos
    ELSE find_fit(ct, ct.blocks[pos].next, bytes)

\* Scan of the free list from pos for the first block after position found.
RECURSIVE find_after(_, _, _)
find_after(ct, pos, found) ==
    IF pos = SizeMax THEN SizeMax
    ELSE IF pos > found THEN pos
    ELSE find_after(ct, ct.blocks[pos].next, found)

\* ------------------------------------------------------------ Manager

\* Write a chain's bytes.  A chain mapped onto a file shares its bytes with
\* the file, and so with every other mapping of that file.
store(M, chain, ct) ==
    LET fd == ChainFd(M, chain)
    IN  [M EXCEPT
           !.mem = [c \in DOMAIN @ |->
                      IF c = chain \/ (fd # NoFd /\ ChainFd(M, c) = fd) THEN ct ELSE @[c]],
           !.files = IF fd # NoFd THEN [@ EXCEPT ![fd] = ct] ELSE @]

\* Manager::open_chain: one link at base, as long as the file if it has
\* data and else start_size.  The chain's id is the address of its first link.
open_chain(M, fd, start_size, base) ==
    LET had_data == fd # NoFd /\ M.files[fd].size > 0
        length == IF had_data THEN M.files[fd].size ELSE start_size
    IN  [M EXCEPT !.csi = (base :> (0 :> base)) @@ @,
                  !.asi = (base :> LinkRecord(base, 0, length, fd)) @@ @]

\* Manager::create_chain(prefix)
create_chain(M, prefix, base) ==
    LET M1 == open_chain(M, NoFd, BASE_SIZE, base)
    IN  [M1 EXCEPT !.mem = (base :> set_up_allocator_at(prefix, BASE_SIZE)) @@ @]

\* Whether create_chain(fd, prefix) rejects the file's first bytes.
PrefixMismatch(M, fd, prefix) ==
    M.files[fd].size > 0 /\ M.files[fd].prefix # prefix

\* A create_chain(fd, prefix) that maps the file without looking at its
\* first bytes.
create_chain_fd_unchecked(M, fd, prefix, base) ==
    LET M1 == open_chain(M, fd, BASE_SIZE, base)
        ct == IF M.files[fd].size > 0
              THEN M.files[fd]
              ELSE set_up_allocator_at(prefix, BASE_SIZE)
    IN  [M1 EXCEPT !.mem = (base :> ct) @@ @,
                   !.files = [@ EXCEPT ![fd] = ct]]

\* Manager::create_chain(fd, prefix): a file with data is mapped as it is and
\* its allocator connected to; an empty one gets the prefix and a fresh
\* allocator.  Nothing is created when the prefix does not match.
create_chain_fd(M, fd, prefix, base) ==
    LET M1 == open_chain(M, fd, BASE_SIZE, base)
        ct == IF M.files[fd].size > 0
              THEN M.files[fd]
              ELSE set_up_allocator_at(prefix, BASE_SIZE)
    IN  IF PrefixMismatch(M, fd, prefix)
        THEN M
        ELSE [M1 EXCEPT !.mem = (base :> ct) @@ @,
                        !.files = [@ EXCEPT ![fd] = ct]]

\* An add_link that enters the link in the chain's map only.
add_link_in_chain_map(M, chain, start, length, base) ==
    [M EXCEPT !.csi = [@ EXCEPT ![chain] = (start :> base) @@ @]]

\* Manager::add_link: a further link of a chain, mapped at base.
add_link(M, chain, start, length, base) ==
    [M EXCEPT !.csi = [@ EXCEPT ![chain] = (start :> base) @@ @],
              !.asi = (base :> LinkRecord(chain, start, length, ChainFd(M, chain))) @@ @]

\* A growth that remaps the whole chain as one longer link at a new address,
\* as MappingContext::resize may: what the chain design rules out.
extend_chain_by_moving(M, chain, new_total_size, base) ==
    LET gone == {M.csi[chain][s] : s \in DOMAIN M.csi[chain]}
        M1 == [M EXCEPT
                 !.csi = [@ EXCEPT ![chain] = (0 :> base)],
                 !.asi = (base :> LinkRecord(chain, 0, new_total_size, ChainFd(M, chain)))
                         @@ [b \in DOMAIN @ \ gone |-> @[b]]]
    IN  store(M1, chain, [M.mem[chain] EXCEPT !.size = new_total_size])

\* Manager::extend_chain_to: the chain (and its file) grows by one link.
extend_chain_to(M, chain, new_total_size, base) ==
    LET total == TotalSize(M, chain)
        M1 == add_link(M, chain, total, new_total_size - total, base)
    IN  store(M1, chain, [M.mem[chain] EXCEPT !.size = new_total_size])

\* Manager::copy_chain: a new chain of one link holding the bytes of chain,
\* mapped onto the file fd if one is given.
copy_chain(M, chain, fd, base) ==
    LET ct == M.mem[chain]
    IN  [M EXCEPT !.csi = (base :> (0 :> base)) @@ @,
                  !.asi = (base :> LinkRecord(base, 0, ct.size, fd)) @@ @,
                  !.mem = (base :> ct) @@ @,
                  !.files = IF fd # NoFd THEN [@ EXCEPT ![fd] = ct] ELSE @]

\* A copy that stays mapped onto the source's file.
get_chain_sharing_file(M, chain, base) == copy_chain(M, chain, ChainFd(M, chain), base)

\* Manager::get_dissociated_chain
get_dissociated_chain(M, chain, base) == copy_chain(M, chain, NoFd, base)

\* Manager::get_associated_chain
get_associated_chain(M, chain, fd, base) == copy_chain(M, chain, fd, base)

\* A destroy_chain that takes only the chain's first link out of the global
\* map.
destroy_chain_first_link(M, chain) ==
    [M EXCEPT !.csi = [c \in DOMAIN @ \ {chain} |-> @[c]],
              !.asi = [b \in DOMAIN @ \ {chain} |-> @[b]],
              !.mem = [c \in DOMAIN @ \ {chain} |-> @[c]]]

\* Manager::destroy_chain: every link is unmapped and leaves the indexes.
destroy_chain(M, chain) ==
    LET gone == {M.csi[chain][s] : s \in DOMAIN M.csi[chain]}
    IN  [M EXCEPT !.csi = [c \in DOMAIN @ \ {chain} |-> @[c]],
                  !.asi = [b \in DOMAIN @ \ gone |-> @[b]],
                  !.mem = [c \in DOMAIN @ \ {chain} |-> @[c]]]

\* A growth rule that would leave room for a second block header.
link_bytes_two_headers(total, bytes) ==
    Max(total, bytes + 2 * AllocatorBlockSize)
\* The bytes of the link that allocate_from adds when nothing fits.
link_bytes(total, bytes) == Max(total, bytes + AllocatorBlockSize)

\* Whether allocate_from has to grow the chain.
must_grow(M, chain, bytes) ==
    find_fit(M.mem[chain], M.mem[chain].first_free, bytes) = SizeMax

\* Manager::allocate_from.  base is where the system maps a new link.
allocate_from(M, chain, bytes, base) ==
    LET ct == M.mem[chain]
        grow == must_grow(M, chain, bytes)
        total == TotalSize(M, chain)
        added == link_bytes(total, bytes)
        M1 == IF grow THEN extend_chain_to(M, chain, total + added, base) ELSE M
        fresh == [prev |-> SizeMax, next |-> SizeMax, size |-> added - AllocatorBlockSize]
        ct1 == IF grow
               THEN AllocatorBlock_attach(
                        [M1.mem[chain] EXCEPT !.blocks = (total :> fresh) @@ @],
                        total, ct.last_free, SizeMax)
               ELSE ct
        found == IF grow THEN total ELSE find_fit(ct, ct.first_free, bytes)
        ct2 == IF ct1.blocks[found].size > bytes + AllocatorBlockSize
               THEN AllocatorBlock_split(ct1, found, bytes)
               ELSE ct1
        ct3 == AllocatorBlock_detach(ct2, found)
    IN  [M |-> store(M1, chain, ct3),
         position |-> found + AllocatorBlockSize,
         grew |-> grow]

\* Manager::allocate_from_same_chain
allocate_from_same_chain(M, here, bytes, base) ==
    allocate_from(M, get_chain(M, here), bytes, base)

\* Manager::deallocate
deallocate(M, address) ==
    LET there == get_chain_and_position(M, address)
        ct == M.mem[there.chain]
        found == there.position - AllocatorBlockSize
        right == find_after(ct, ct.first_free, found)
        left == IF right = SizeMax THEN ct.last_free ELSE ct.blocks[right].prev
        ct1 == AllocatorBlock_attach(ct, found, left, right)
        ct2 == AllocatorBlock_coalesce(ct1, DOMAIN M.csi[there.chain], found)
        ct3 == [ct2 EXCEPT !.data = [q \in DOMAIN @ \ {there.position} |-> @[q]]]
    IN  store(M, there.chain, ct3)

\* A lookup of the first allocation that takes the chain to have no prefix.
find_first_allocation_at_start(M, chain, bytes) ==
    get_address_in_chain(M, chain, FirstBlockPosition("") + AllocatorBlockSize)

\* Manager::find_first_allocation
find_first_allocation(M, chain, bytes) ==
    get_address_in_chain(M, chain,
        FirstBlockPosition(M.mem[chain].prefix) + AllocatorBlockSize)

\* Write a cell of user data at a host address.
write_at(M, address, cell) ==
    LET there == get_chain_and_position(M, address)
    IN  store(M, there.chain,
              [M.mem[there.chain] EXCEPT !.data = (there.position :> cell) @@ @])

\* Where the system may place a new mapping: the lowest or the highest free
\* place.
MmapChoices(M) ==
    LET free == Bases \ DOMAIN M.asi
    IN  IF free = {} THEN {} ELSE {MinOf(free), MaxOf(free)}

\* Whether some live chain is mapped onto the file.
Mapped(M, fd) == \E c \in Chains(M) : ChainFd(M, c) = fd

\* The files callers copy a chain onto: not mapped by a live chain, and not
\* longer than the chain, so that the file ends up holding the chain's bytes.
CanSaveOnto(M, chain, fd) ==
    ~Mapped(M, fd) /\ M.files[fd].size <= M.mem[chain].size

\* -------------------------------------------------------- observers

NoLast == [op |-> "none", h |-> 0, chain |-> NO_CHAIN, dst |-> NO_CHAIN,
           fd |-> NoFd, prefix |-> "", destroyed |-> {}, grew |-> FALSE,
           from |-> 0, addr |-> nullptr, closed |-> {},
           unmapped |-> {}, bytes |-> 0, result |-> nullptr]

\* The chain position of a host address (NullRef for the null address).
PositionOf(M, address) ==
    IF address = nullptr THEN NullRef
    ELSE get_chain_and_position(M, address).position

\* The positions of the cells of a chain that hold a Pointer.
PointerCells(ct) == {q \in DOMAIN ct.data : ct.data[q].kind = "ptr"}

\* For each Pointer stored in a chain, the host address it resolves to.
PointerAddresses(M, chain) ==
    [q \in PointerCells(M.mem[chain]) |->
        Pointer_get(M, get_address_in_chain(M, chain, q), M.mem[chain].data[q].v)]

\* For each Pointer stored in a chain, the chain position it resolves to.
PointerTargets(M, chain) ==
    [q \in PointerCells(M.mem[chain]) |-> PositionOf(M, PointerAddresses(M, chain)[q])]

\* UniqueMappedPointer<T>::get
UniqueMappedPointer_get(M, chain) ==
    IF chain = NO_CHAIN
    THEN nullptr
    ELSE find_first_allocation(M, chain, SizeofRoot)

\* The shape of a chain's free list: head, tail, and each block's size.
FreeShape(ct) ==
    [first |-> ct.first_free, last |-> ct.last_free,
     blocks |-> [i \in 1..Len(FreeBlocks(ct)) |->
                   <<FreeBlocks(ct)[i], ct.blocks[FreeBlocks(ct)[i]].size>>]]

\* Whether the chain holds a constructed root.
HasRoot(M, chain) ==
    PositionOf(M, UniqueMappedPointer_get(M, chain)) \in DOMAIN M.mem[chain].data

NoTrack == [st |-> "none", fd |-> NoFd, snap |-> EmptyFile, root |-> NullRef,
            ptrs |-> PointerTargets([mem |-> (NO_CHAIN :> EmptyFile)], NO_CHAIN)]

\* A handle's progress through save(fd); reset(); load(fd, prefix).  The
\* bytes, root position and pointer targets are recorded as they are just
\* before the save; the record is dropped as soon as the handle does anything
\* else or the file's bytes change.
NextTrack(M2, rec) ==
    [h \in Handles |->
        IF rec.op = "save" /\ rec.h = h
        THEN IF HasRoot(Cur, handles[h])
             THEN [st |-> "saved", fd |-> rec.fd, snap |-> chain_mem[handles[h]],
                   root |-> PositionOf(Cur, UniqueMappedPointer_get(Cur, handles[h])),
                   ptrs |-> PointerTargets(Cur, handles[h])]
             ELSE NoTrack
        ELSE IF track[h].st = "none" THEN NoTrack
        ELSE IF rec.h = h /\ track[h].st = "saved" /\ rec.op = "reset"
        THEN [track[h] EXCEPT !.st = "reset"]
        ELSE IF /\ rec.h = h /\ track[h].st = "reset" /\ rec.op = "load"
                /\ rec.fd = track[h].fd /\ rec.prefix = track[h].snap.prefix
        THEN [track[h] EXCEPT !.st = "loaded"]
        ELSE IF rec.h = h \/ M2.files[track[h].fd] # files[track[h].fd]
        THEN NoTrack
        ELSE track[h]]

\* The pairs (copy, source) made by get_dissociated_chain, while both live.
NextOrigin(rec) ==
    LET kept == {d \in DOMAIN origin :
                    d \notin rec.destroyed /\ origin[d] \notin rec.destroyed}
        made == IF rec.op = "get_dissociated_chain" THEN {rec.dst} ELSE {}
    IN  [d \in kept \cup made |-> IF d \in made THEN rec.chain ELSE origin[d]]

\* The descriptor the Manager holds for a chain mapped onto a file: its own
\* duplicate of the descriptor the caller supplied, which stays the caller's.
duplicate_of(chain) == 2 + MaxFd + chain \div MaxChainBytes

\* A destroy_chain that closes both its duplicate and the caller's descriptor.
closed_by_destroy_with_supplied(M, chain) ==
    IF ChainFd(M, chain) # NoFd
    THEN {duplicate_of(chain), ChainFd(M, chain)}
    ELSE {}

\* The descriptors destroy_chain closes: the one the Manager owns, if any.
closed_by_destroy(M, chain) ==
    IF ChainFd(M, chain) # NoFd THEN {duplicate_of(chain)} ELSE {}

\* The descriptors an operation closes, and those it opens for the chains it
\* maps onto files.
closed_by(rec) == UNION {closed_by_destroy(Cur, c) : c \in rec.destroyed}
opened_by(M2, rec) ==
    {duplicate_of(c) :
        c \in {c \in Chains(M2) :
                  /\ ChainFd(M2, c) # NoFd
                  /\ c \notin Chains(Cur) \/ c \in rec.destroyed}}

\* The base addresses of the links an operation's destroy_chain calls unmap.
unmapped_by(rec) ==
    UNION {{s.base : s \in Segments(Cur, c)} : c \in rec.destroyed}

\* The state after an operation.
Commit(M2, hs, rec) ==
    /\ steps < MaxSteps
    /\ steps' = steps + 1
    /\ chain_space_index' = M2.csi
    /\ address_space_index' = M2.asi
    /\ chain_mem' = M2.mem
    /\ files' = M2.files
    /\ handles' = hs
    /\ m_last' = [rec EXCEPT !.closed = closed_by(rec),
                             !.unmapped = unmapped_by(rec)]
    /\ open_fds' = (open_fds \ closed_by(rec)) \cup opened_by(M2, rec)
    /\ track' = NextTrack(M2, rec)
    /\ origin' = NextOrigin(rec)
    /\ UNCHANGED <<arena_vars, thread_vars, probe, vector_vars>>

\* The host addresses of the allocations of a chain.
AllocatedAddresses(M, chain) ==
    {get_address_in_chain(M, chain, q) : q \in Allocated(M.mem[chain])}

\* The chains no handle owns.
Unowned == Chains(Cur) \ {handles[h] : h \in Handles}

\* ----------------------------------------------- UniqueMappedPointer<T>

\* The chains reset() destroys, and the Manager after it.
reset_destroys(chain) == IF chain # NO_CHAIN THEN {chain} ELSE {}
after_reset(M, chain) == IF chain # NO_CHAIN THEN destroy_chain(M, chain) ELSE M

\* UniqueMappedPointer<T>::reset: nothing happens on an empty handle.
UniqueMappedPointer_reset(h) ==
    /\ Commit(after_reset(Cur, handles[h]), [handles EXCEPT ![h] = NO_CHAIN],
              [NoLast EXCEPT !.op = "reset", !.h = h, !.chain = handles[h],
                             !.destroyed = reset_destroys(handles[h])])

\* UniqueMappedPointer<T>::construct(prefix): the root is a T holding 0.
UniqueMappedPointer_construct(h, prefix, base) ==
    LET M1 == after_reset(Cur, handles[h])
        M2 == create_chain(M1, prefix, base)
        item == allocate_from(M2, base, SizeofRoot, base)
        M3 == write_at(item.M, get_address_in_chain(item.M, base, item.position),
                       [kind |-> "val", v |-> 0])
    IN  /\ base \in MmapChoices(M1)
        /\ Commit(M3, [handles EXCEPT ![h] = base],
                  [NoLast EXCEPT !.op = "construct", !.h = h, !.chain = handles[h],
                                 !.dst = base, !.prefix = prefix,
                                 !.destroyed = reset_destroys(handles[h]),
                                 !.result = get_address_in_chain(item.M, base,
                                                                 item.position)])

\* A load that sets up a fresh chain instead of mapping the file.
UniqueMappedPointer_load_fresh(h, fd, prefix, base) ==
    LET M1 == after_reset(Cur, handles[h])
        M2 == create_chain(M1, prefix, base)
    IN  /\ base \in MmapChoices(M1)
        /\ ~Mapped(M1, fd)
        /\ Len(prefix) >= Len(M1.files[fd].prefix)
        /\ Commit(M2, [handles EXCEPT ![h] = base],
                  [NoLast EXCEPT !.op = "load", !.h = h, !.chain = handles[h],
                                 !.dst = base, !.fd = fd, !.prefix = prefix,
                                 !.destroyed = reset_destroys(handles[h])])

\* UniqueMappedPointer<T>::load(fd, prefix).  When create_chain throws the
\* handle stays empty.  Callers do not map a file that a live chain is mapped
\* onto, nor pass a prefix shorter than the one the file was written with.
UniqueMappedPointer_load(h, fd, prefix, base) ==
    LET M1 == after_reset(Cur, handles[h])
        M2 == create_chain_fd(M1, fd, prefix, base)
        chain == IF PrefixMismatch(M1, fd, prefix) THEN NO_CHAIN ELSE base
    IN  /\ base \in MmapChoices(M1)
        /\ ~Mapped(M1, fd)
        /\ Len(prefix) >= Len(M1.files[fd].prefix)
        /\ Commit(M2, [handles EXCEPT ![h] = chain],
                  [NoLast EXCEPT !.op = "load", !.h = h, !.chain = handles[h],
                                 !.dst = chain, !.fd = fd, !.prefix = prefix,
                                 !.destroyed = reset_destroys(handles[h])])

\* A dissociate that returns from a call on an empty handle without
\* throwing.
UniqueMappedPointer_dissociate_unguarded(h, base) ==
    LET chain == handles[h]
        M1 == get_dissociated_chain(Cur, chain, base)
        M2 == destroy_chain(M1, chain)
    IN  IF chain = NO_CHAIN
        THEN Commit(Cur, handles,
                    [NoLast EXCEPT !.op = "dissociate", !.h = h])
        ELSE /\ base \in MmapChoices(Cur)
             /\ Commit(M2, [handles EXCEPT ![h] = base],
                       [NoLast EXCEPT !.op = "dissociate", !.h = h, !.chain = chain,
                                      !.dst = base, !.destroyed = {chain}])

\* UniqueMappedPointer<T>::dissociate when Manager::get_dissociated_chain
\* returns the chain it was given, as its contract allows for a chain that is
\* mapped onto no file: new_chain = chain; destroy_chain(chain);
\* chain = new_chain.
UniqueMappedPointer_dissociate_in_place(h) ==
    LET chain == handles[h]
        new_chain == chain
    IN  /\ chain # NO_CHAIN
        /\ ChainFd(Cur, chain) = NoFd
        /\ Commit(destroy_chain(Cur, chain), [handles EXCEPT ![h] = new_chain],
                  [NoLast EXCEPT !.op = "dissociate", !.h = h, !.chain = chain,
                                 !.dst = new_chain, !.destroyed = {chain}])

\* UniqueMappedPointer<T>::dissociate.  On an empty handle it throws
\* std::runtime_error before it calls the Manager.
UniqueMappedPointer_dissociate(h, base) ==
    LET chain == handles[h]
        M1 == get_dissociated_chain(Cur, chain, base)
        M2 == destroy_chain(M1, chain)
    IN  IF chain = NO_CHAIN
        THEN Commit(Cur, handles,
                    [NoLast EXCEPT !.op = "dissociate_throws", !.h = h])
        ELSE /\ base \in MmapChoices(Cur)
             /\ Commit(M2, [handles EXCEPT ![h] = base],
                       [NoLast EXCEPT !.op = "dissociate", !.h = h, !.chain = chain,
                                      !.dst = base, !.destroyed = {chain}])

\* UniqueMappedPointer<T>::save(fd).  Callers do not save onto a file that a
\* live chain is mapped onto, nor onto a file longer than the chain.
\* On an empty handle it throws std::runtime_error before it calls the
\* Manager.
UniqueMappedPointer_save(h, fd, base) ==
    LET chain == handles[h]
        M1 == get_associated_chain(Cur, chain, fd, base)
        M2 == destroy_chain(M1, chain)
    IN  IF chain = NO_CHAIN
        THEN Commit(Cur, handles,
                    [NoLast EXCEPT !.op = "save_throws", !.h = h, !.fd = fd])
        ELSE /\ base \in MmapChoices(Cur)
             /\ CanSaveOnto(Cur, chain, fd)
             /\ Commit(M2, [handles EXCEPT ![h] = base],
                       [NoLast EXCEPT !.op = "save", !.h = h, !.chain = chain,
                                      !.dst = base, !.fd = fd, !.destroyed = {chain}])

\* ---------------------------------------------------------- Allocator<T>

\* Allocator<T>::allocate(n) of the allocator stored at address here, for
\* T = char.  No growth is modelled beyond MaxChainBytes.
Allocator_allocate(here, n, base) ==
    LET chain == get_chain(Cur, here)
        grow == must_grow(Cur, chain, n)
        got == allocate_from_same_chain(Cur, here, n, base)
    IN  /\ IF grow
           THEN /\ base \in MmapChoices(Cur)
                /\ TotalSize(Cur, chain) + link_bytes(TotalSize(Cur, chain), n)
                      <= MaxChainBytes
           ELSE base = MinOf(Bases)
        /\ Commit(got.M, handles,
                  [NoLast EXCEPT !.op = "allocate", !.chain = chain, !.grew = got.grew])

\* Allocator<T>::deallocate(p, n); n is not used.
Allocator_deallocate(p) ==
    Commit(deallocate(Cur, p), handles,
           [NoLast EXCEPT !.op = "deallocate", !.chain = get_chain(Cur, p)])

\* ------------------------------------------------------ uses of the chain

\* Pointer<T>::operator=(addr) on the Pointer stored at address self.
\* When get_position_in_same_chain throws, the exception leaves operator=
\* before position is assigned.
Pointer_store(self, addr) ==
    LET position == Pointer_assign(Cur, self, addr)
    IN  IF position = Thrown
        THEN Commit(Cur, handles,
                    [NoLast EXCEPT !.op = "assign_throws", !.addr = addr,
                                   !.chain = get_chain(Cur, self)])
        ELSE Commit(write_at(Cur, self, [kind |-> "ptr", v |-> position]), handles,
                    [NoLast EXCEPT !.op = "assign", !.addr = addr,
                                   !.chain = get_chain(Cur, self)])

\* A plain value written into an allocation.
Write(address, v) ==
    Commit(write_at(Cur, address, [kind |-> "val", v |-> v]), handles,
           [NoLast EXCEPT !.op = "write", !.chain = get_chain(Cur, address)])

\* Manager::get_dissociated_chain called directly; the caller keeps both chains.
Manager_get_dissociated_chain(chain, base) ==
    /\ base \in MmapChoices(Cur)
    /\ Commit(get_dissociated_chain(Cur, chain, base), handles,
              [NoLast EXCEPT !.op = "get_dissociated_chain", !.chain = chain,
                             !.dst = base])

\* Manager::get_associated_chain called directly; the caller keeps both chains.
Manager_get_associated_chain(chain, fd, base) ==
    /\ base \in MmapChoices(Cur)
    /\ CanSaveOnto(Cur, chain, fd)
    /\ Commit(get_associated_chain(Cur, chain, fd, base), handles,
              [NoLast EXCEPT !.op = "get_associated_chain", !.chain = chain,
                             !.dst = base, !.fd = fd])

\* Manager::destroy_chain called directly on a chain no handle owns.
Manager_destroy_chain(chain) ==
    Commit(destroy_chain(Cur, chain), handles,
           [NoLast EXCEPT !.op = "destroy_chain", !.chain = chain,
                          !.destroyed = {chain}])

\* ------------------------------------------------------ specifications

Threads == 1..MaxThreads

\* A thread that runs no operation.
NoOp == [kind |-> "none", chain |-> NO_CHAIN, bytes |-> 0, found |-> SizeMax,
         base |-> 0, addr |-> nullptr, position |-> 0, result |-> nullptr,
         expect |-> nullptr]

\* No call is under study.
NoProbe == [op |-> "none"]

\* No thread runs, no lock is held.
Vectors == 1..MaxVectors
\* CompatVector() = default
CompatVector_default ==
    [exists |-> TRUE, length |-> 0, reserved_length |-> 0, first |-> nullptr]
NoVector == [CompatVector_default EXCEPT !.exists = FALSE]

\* No vector exists and the allocator has handed out nothing.
NoVectorOp == [op |-> "none", self |-> 0, other |-> 0, n |-> 0, before |-> NoVector,
               threw |-> FALSE]
VectorsIdle ==
    /\ vectors = [v \in Vectors |-> NoVector]
    /\ heap = <<>>
    /\ v_last = NoVectorOp

ThreadsIdle ==
    /\ VectorsIdle
    /\ pc = [t \in Threads |-> "idle"]
    /\ op = [t \in Threads |-> NoOp]
    /\ allocator_mutex = [c \in Bases |-> 0]
    /\ index_lock = [writer |-> 0, readers |-> {}]
    /\ owned = {}

ThreadInit == probe = NoProbe /\ ThreadsIdle

ManagerInit ==
    /\ chain_space_index = [c \in {} |-> [s \in {} |-> 0]]
    /\ address_space_index = [b \in {} |-> LinkRecord(NO_CHAIN, 0, 0, NoFd)]
    /\ chain_mem = [c \in {} |-> EmptyFile]
    /\ files = [fd \in Fds |-> EmptyFile]
    /\ handles = [h \in Handles |-> NO_CHAIN]
    /\ open_fds = Fds
    /\ m_last = NoLast
    /\ steps = 0
    /\ track = [h \in Handles |-> NoTrack]
    /\ origin = [d \in {} |-> NO_CHAIN]

Init == ArenaInit /\ ManagerInit /\ ThreadInit

Next == Allocate \/ Deallocate

Spec == Init /\ [][Next]_vars

\* The addresses callers hold: those of the allocations of the live chains.
LiveAddresses == UNION {AllocatedAddresses(Cur, c) : c \in Chains(Cur)}
\* The addresses of the roots.
RootAddresses == {UniqueMappedPointer_get(Cur, c) : c \in Chains(Cur)}
\* The address of the Allocator<T> a chain's objects allocate through.
AllocatorAddresses ==
    {MinOf(AllocatedAddresses(Cur, c)) :
        c \in {c \in Chains(Cur) : AllocatedAddresses(Cur, c) # {}}}

Construct ==
    \E h \in Handles, prefix \in Prefixes, base \in Bases :
        UniqueMappedPointer_construct(h, prefix, base)
Load ==
    \E h \in Handles, fd \in Fds, prefix \in Prefixes, base \in Bases :
        UniqueMappedPointer_load(h, fd, prefix, base)
\* The handles that own a chain: the ones this program saves, dissociates
\* and resets.
Owning == {h \in DOMAIN handles : handles[h] # NO_CHAIN}
Save == \E h \in Owning, fd \in Fds, base \in Bases : UniqueMappedPointer_save(h, fd, base)
Dissociate == \E h \in Owning, base \in Bases : UniqueMappedPointer_dissociate(h, base)
Reset == \E h \in Owning : UniqueMappedPointer_reset(h)
ChainAllocate ==
    \E here \in AllocatorAddresses, n \in ByteCounts, base \in Bases :
        Allocator_allocate(here, n, base)
ChainDeallocate == \E p \in LiveAddresses \ RootAddresses : Allocator_deallocate(p)
\* Addresses a caller may hand to a Pointer: null, objects of the pointer's
\* chain, the roots of the other chains, and an address in no chain.
Assignable(self) ==
    {nullptr, nullptr + 1} \cup AllocatedAddresses(Cur, get_chain(Cur, self))
        \cup RootAddresses
Assign == \E self \in LiveAddresses : \E addr \in Assignable(self) : Pointer_store(self, addr)
WriteValue == \E address \in LiveAddresses, v \in Values : Write(address, v)
CopyChain ==
    \E chain \in Chains(Cur), base \in Bases : Manager_get_dissociated_chain(chain, base)
AssociateChain ==
    \E chain \in Chains(Cur), fd \in Fds, base \in Bases :
        Manager_get_associated_chain(chain, fd, base)
DestroyChain == \E chain \in Unowned : Manager_destroy_chain(chain)

NextManager ==
    \/ Construct \/ Load \/ Save \/ Dissociate \/ Reset
    \/ ChainAllocate \/ ChainDeallocate \/ Assign \/ WriteValue
    \/ CopyChain \/ AssociateChain \/ DestroyChain

SpecManager == Init /\ [][NextManager]_vars

\* ------------------------------------------------- moving a handle

\* The handles of a program that moves one handle into another.
Movers == 1..(MaxHandles + 1)

\* UniqueMappedPointer(UniqueMappedPointer&&) = default and
\* operator=(UniqueMappedPointer&&) = default: the member chain, an integer,
\* is moved memberwise, which copies it.  The chain the destination held is
\* not destroyed.
UniqueMappedPointer_move(to, from) ==
    /\ to # from
    /\ handles[from] # NO_CHAIN
    /\ Commit(Cur, [handles EXCEPT ![to] = handles[from]],
              [NoLast EXCEPT !.op = "move", !.h = to, !.from = from,
                             !.chain = handles[from]])

\* A handle whose chain id names no live chain is not reset or reused: what
\* destroy_chain does with such an id is not defined.
Usable(h) == handles[h] = NO_CHAIN \/ handles[h] \in Chains(Cur)

InitMove ==
    /\ ArenaInit
    /\ ThreadInit
    /\ chain_space_index = [c \in {} |-> [s \in {} |-> 0]]
    /\ address_space_index = [b \in {} |-> LinkRecord(NO_CHAIN, 0, 0, NoFd)]
    /\ chain_mem = [c \in {} |-> EmptyFile]
    /\ files = [fd \in Fds |-> EmptyFile]
    /\ handles = [h \in Movers |-> NO_CHAIN]
    /\ open_fds = Fds
    /\ m_last = NoLast
    /\ steps = 0
    /\ track = [h \in Handles |-> NoTrack]
    /\ origin = [d \in {} |-> NO_CHAIN]

MoverConstruct ==
    \E h \in Movers, prefix \in Prefixes, base \in Bases :
        Usable(h) /\ UniqueMappedPointer_construct(h, prefix, base)
MoverReset == \E h \in Owning : Usable(h) /\ UniqueMappedPointer_reset(h)
MoverDissociate ==
    \E h \in Owning, base \in Bases :
        Usable(h) /\ UniqueMappedPointer_dissociate(h, base)
Move == \E to \in Movers, from \in Movers : UniqueMappedPointer_move(to, from)

NextMove == MoverConstruct \/ MoverReset \/ MoverDissociate \/ Move

SpecMove == InitMove /\ [][NextMove]_vars

\* ------------------------------------------ calls on any handle

\* A program that calls the handle's operations whether or not the handle
\* owns a chain.
AnyConstruct ==
    \E h \in Handles, base \in Bases :
        Usable(h) /\ UniqueMappedPointer_construct(h, "", base)
AnyLoad ==
    \E h \in Handles, fd \in Fds, base \in Bases :
        Usable(h) /\ UniqueMappedPointer_load(h, fd, "", base)
AnySave ==
    \E h \in Handles, fd \in Fds, base \in Bases :
        Usable(h) /\ UniqueMappedPointer_save(h, fd, base)
AnyDissociate ==
    \E h \in Handles, base \in Bases :
        Usable(h) /\ UniqueMappedPointer_dissociate(h, base)
AnyReset == \E h \in Handles : Usable(h) /\ UniqueMappedPointer_reset(h)

NextHandle == AnyConstruct \/ AnyLoad \/ AnySave \/ AnyDissociate \/ AnyReset

SpecHandle == Init /\ [][NextHandle]_vars

\* The same program with a Manager that hands back the chain it was given
\* when that chain already is what the caller asked for.
DissociateInPlace ==
    \E h \in Handles : Usable(h) /\ UniqueMappedPointer_dissociate_in_place(h)

NextInPlace == NextHandle \/ DissociateInPlace

SpecInPlace == Init /\ [][NextInPlace]_vars

\* ----------------------------------------------------------- threads

\* std::shared_timed_mutex::lock_shared on Manager::mutex succeeds when no
\* writer holds it.  This variant does not look.
can_lock_shared_always(t) == TRUE

can_lock_shared(t) == index_lock.writer = 0

\* std::shared_timed_mutex::lock on Manager::mutex succeeds when nobody
\* holds it.
can_lock(t) == index_lock.writer = 0 /\ index_lock.readers = {}

\* A chain's allocator lock that is never found taken.
mutex_free_always(chain) == TRUE

\* The lock of a chain's allocator (with_allocator_header) is free.
mutex_free(chain) == allocator_mutex[chain] = 0

\* A resolution that keeps the shared lock when it is done.
readers_kept(t) == index_lock.readers

\* The readers once t's address resolution is done: the shared lock is
\* released.
readers_after(t) == index_lock.readers \ {t}

\* The chains a thread may start to work on: callers do not use a chain that
\* is being destroyed.
BeingDestroyed == {op[t].chain : t \in {t \in Threads : pc[t] # "idle" /\ op[t].kind = "destroy"}}
InUse == {op[t].chain : t \in {t \in Threads : pc[t] # "idle"}}
     \cup {r.chain : r \in owned}
Workable == DOMAIN chain_mem \ BeingDestroyed

\* Part of Manager::allocate_from inside the allocator: the first-fit scan.
allocate_scan(M, chain, bytes) ==
    find_fit(M.mem[chain], M.mem[chain].first_free, bytes)

\* Part of Manager::allocate_from: the grow step.  A link is added and its
\* one free block goes to the end of the free list.
allocate_grow(M, chain, bytes, base) ==
    LET total == TotalSize(M, chain)
        added == link_bytes(total, bytes)
        M1 == extend_chain_to(M, chain, total + added, base)
        fresh == [prev |-> SizeMax, next |-> SizeMax, size |-> added - AllocatorBlockSize]
    IN  store(M1, chain,
              AllocatorBlock_attach(
                  [M1.mem[chain] EXCEPT !.blocks = (total :> fresh) @@ @],
                  total, M.mem[chain].last_free, SizeMax))

\* Part of Manager::allocate_from: split the found block if it is larger
\* than needed, and detach it.
allocate_take(M, chain, found, bytes) ==
    LET ct == M.mem[chain]
        ct2 == IF ct.blocks[found].size > bytes + AllocatorBlockSize
               THEN AllocatorBlock_split(ct, found, bytes)
               ELSE ct
    IN  store(M, chain, AllocatorBlock_detach(ct2, found))

\* The Manager's state with one or more of its parts replaced; everything
\* else of Part 2 is untouched by the threads.
ThreadCommit(csi, asi, cmem) ==
    /\ chain_space_index' = csi
    /\ address_space_index' = asi
    /\ chain_mem' = cmem
    /\ UNCHANGED <<arena_vars, files, handles, open_fds, m_last, track, origin, probe,
                   vector_vars>>

Goto(t, where, rec) ==
    /\ pc' = [pc EXCEPT ![t] = where]
    /\ op' = [op EXCEPT ![t] = rec]

\* A thread calls an operation.
Begin(t, where, rec) ==
    /\ pc[t] = "idle"
    /\ steps < MaxOps
    /\ steps' = steps + 1
    /\ Goto(t, where, rec)
    /\ ThreadCommit(chain_space_index, address_space_index, chain_mem)

\* Manager::allocate_from(chain, bytes) is called.
StartAllocate(t) ==
    \E chain \in Workable, bytes \in ByteCounts :
        /\ Begin(t, "a_mutex", [NoOp EXCEPT !.kind = "allocate", !.chain = chain,
                                             !.bytes = bytes])
        /\ UNCHANGED <<allocator_mutex, index_lock, owned>>

\* Manager::deallocate(address) is called on an allocation the thread holds.
StartDeallocate(t) ==
    \E r \in {r \in owned : r.t = t} :
        /\ r.chain \in Workable
        /\ Begin(t, "d_mutex", [NoOp EXCEPT !.kind = "deallocate", !.chain = r.chain,
                                             !.addr = r.addr])
        /\ owned' = owned \ {r}
        /\ UNCHANGED <<allocator_mutex, index_lock>>

\* A Pointer<T> to the root of a chain is dereferenced.  The chain's first
\* link starts at the address that is the chain's id.
StartDeref(t) ==
    \E chain \in Workable :
        LET position == FirstBlockPosition(chain_mem[chain].prefix) + AllocatorBlockSize
        IN  /\ Begin(t, "l_shared", [NoOp EXCEPT !.kind = "deref", !.chain = chain,
                                                  !.position = position,
                                                  !.expect = chain + position])
            /\ UNCHANGED <<allocator_mutex, index_lock, owned>>

\* Manager::create_chain(prefix) is called.
StartCreate(t) ==
    /\ Begin(t, "c_write", [NoOp EXCEPT !.kind = "create"])
    /\ UNCHANGED <<allocator_mutex, index_lock, owned>>

\* Manager::destroy_chain(chain) is called on a chain nobody is using.
StartDestroy(t) ==
    \E chain \in Workable \ InUse :
        /\ Begin(t, "x_write", [NoOp EXCEPT !.kind = "destroy", !.chain = chain])
        /\ UNCHANGED <<allocator_mutex, index_lock, owned>>

Quiet == ThreadCommit(chain_space_index, address_space_index, chain_mem) /\ UNCHANGED steps

\* with_allocator_header: the chain's allocator is locked.
LockAllocator(t) ==
    /\ pc[t] \in {"a_mutex", "d_mutex"}
    /\ mutex_free(op[t].chain)
    /\ allocator_mutex' = [allocator_mutex EXCEPT ![op[t].chain] = t]
    /\ Goto(t, IF pc[t] = "a_mutex" THEN "a_scan_shared" ELSE "d_shared", op[t])
    /\ Quiet /\ UNCHANGED <<index_lock, owned>>

\* Address resolution starts: Manager::mutex is locked shared.
LockShared(t) ==
    /\ pc[t] \in {"a_scan_shared", "a_take_shared", "d_shared", "l_shared"}
    /\ can_lock_shared(t)
    /\ index_lock' = [index_lock EXCEPT !.readers = @ \cup {t}]
    /\ Goto(t, CASE pc[t] = "a_scan_shared" -> "a_scan"
                 [] pc[t] = "a_take_shared" -> "a_take"
                 [] pc[t] = "d_shared" -> "d_free"
                 [] OTHER -> "l_read", op[t])
    /\ Quiet /\ UNCHANGED <<allocator_mutex, owned>>

\* An index mutation starts: Manager::mutex is locked exclusively.
LockWrite(t) ==
    /\ pc[t] \in {"a_grow_write", "c_write", "x_write"}
    /\ can_lock(t)
    /\ index_lock' = [index_lock EXCEPT !.writer = t]
    /\ Goto(t, CASE pc[t] = "a_grow_write" -> "a_grow_asi"
                 [] pc[t] = "c_write" -> "c_asi"
                 [] OTHER -> "x_asi", op[t])
    /\ Quiet /\ UNCHANGED <<allocator_mutex, owned>>

\* allocate_from scans the free list; when nothing fits it goes on to grow.
Scan(t) ==
    LET found == allocate_scan(Cur, op[t].chain, op[t].bytes)
    IN  /\ pc[t] = "a_scan"
        /\ index_lock' = [index_lock EXCEPT !.readers = readers_after(t)]
        /\ Goto(t, IF found = SizeMax THEN "a_grow_write" ELSE "a_take_shared",
                [op[t] EXCEPT !.found = found])
        /\ Quiet /\ UNCHANGED <<allocator_mutex, owned>>

\* Whether the system can give the chain a further link for the request.
CanGrow(t) ==
    /\ MmapChoices(Cur) # {}
    /\ TotalSize(Cur, op[t].chain) + link_bytes(TotalSize(Cur, op[t].chain), op[t].bytes)
          <= MaxChainBytes

\* The grow step maps the new link and enters it in the global map.
GrowMap(t) ==
    /\ pc[t] = "a_grow_asi"
    /\ CanGrow(t)
    /\ \E base \in MmapChoices(Cur) :
          /\ ThreadCommit(chain_space_index,
                          allocate_grow(Cur, op[t].chain, op[t].bytes, base).asi,
                          chain_mem)
          /\ Goto(t, "a_grow_csi", [op[t] EXCEPT !.base = base])
    /\ UNCHANGED <<steps, allocator_mutex, index_lock, owned>>

\* The system has no room for the link: allocate_from throws.
GrowFails(t) ==
    /\ pc[t] = "a_grow_asi"
    /\ ~CanGrow(t)
    /\ index_lock' = [index_lock EXCEPT !.writer = 0]
    /\ Goto(t, "a_release", [op[t] EXCEPT !.result = Thrown])
    /\ Quiet /\ UNCHANGED <<allocator_mutex, owned>>

\* The grow step enters the link in the chain's map, puts its free block on
\* the free list and unlocks Manager::mutex.
GrowLink(t) ==
    LET M2 == allocate_grow(Cur, op[t].chain, op[t].bytes, op[t].base)
    IN  /\ pc[t] = "a_grow_csi"
        /\ ThreadCommit(M2.csi, address_space_index, M2.mem)
        /\ index_lock' = [index_lock EXCEPT !.writer = 0]
        /\ Goto(t, "a_take_shared",
                [op[t] EXCEPT !.found = M2.mem[op[t].chain].last_free])
        /\ UNCHANGED <<steps, allocator_mutex, owned>>

\* allocate_from takes the block it found.
Take(t) ==
    LET M2 == allocate_take(Cur, op[t].chain, op[t].found, op[t].bytes)
    IN  /\ pc[t] = "a_take"
        /\ ThreadCommit(chain_space_index, address_space_index, M2.mem)
        /\ index_lock' = [index_lock EXCEPT !.readers = readers_after(t)]
        /\ Goto(t, "a_release",
                [op[t] EXCEPT !.result =
                    get_address_in_chain(Cur, op[t].chain,
                                         op[t].found + AllocatorBlockSize)])
        /\ UNCHANGED <<steps, allocator_mutex, owned>>

\* Manager::deallocate puts the block back.
Free(t) ==
    /\ pc[t] = "d_free"
    /\ ThreadCommit(chain_space_index, address_space_index,
                    deallocate(Cur, op[t].addr).mem)
    /\ index_lock' = [index_lock EXCEPT !.readers = readers_after(t)]
    /\ Goto(t, "d_release", op[t])
    /\ UNCHANGED <<steps, allocator_mutex, owned>>

\* with_allocator_header returns: the allocator is unlocked, and the caller
\* of allocate_from has its allocation.
UnlockAllocator(t) ==
    /\ pc[t] \in {"a_release", "d_release"}
    /\ allocator_mutex' = [allocator_mutex EXCEPT ![op[t].chain] = 0]
    /\ owned' = IF pc[t] = "a_release" /\ op[t].result # Thrown
                THEN owned \cup {[t |-> t, chain |-> op[t].chain,
                                  addr |-> op[t].result, bytes |-> op[t].bytes]}
                ELSE owned
    /\ Goto(t, "idle", op[t])
    /\ Quiet /\ UNCHANGED index_lock

\* Pointer<T>::get resolves the position and unlocks.
Read(t) ==
    /\ pc[t] = "l_read"
    /\ index_lock' = [index_lock EXCEPT !.readers = readers_after(t)]
    /\ Goto(t, "idle",
            [op[t] EXCEPT !.result = get_address_in_chain(Cur, op[t].chain,
                                                          op[t].position)])
    /\ Quiet /\ UNCHANGED <<allocator_mutex, owned>>

\* create_chain maps the first link and enters it in the global map.
CreateMap(t) ==
    /\ pc[t] = "c_asi"
    /\ \E base \in MmapChoices(Cur) :
          /\ ThreadCommit(chain_space_index, create_chain(Cur, "", base).asi, chain_mem)
          /\ Goto(t, "c_csi", [op[t] EXCEPT !.base = base])
    /\ UNCHANGED <<steps, allocator_mutex, index_lock, owned>>

\* The system has no room for another chain: create_chain throws.
CreateFails(t) ==
    /\ pc[t] = "c_asi"
    /\ MmapChoices(Cur) = {}
    /\ index_lock' = [index_lock EXCEPT !.writer = 0]
    /\ Goto(t, "idle", [op[t] EXCEPT !.result = Thrown])
    /\ Quiet /\ UNCHANGED <<allocator_mutex, owned>>

\* create_chain enters the chain in the per-chain map, sets up its
\* allocator and unlocks.
CreateLink(t) ==
    LET M2 == create_chain(Cur, "", op[t].base)
    IN  /\ pc[t] = "c_csi"
        /\ ThreadCommit(M2.csi, address_space_index, M2.mem)
        /\ index_lock' = [index_lock EXCEPT !.writer = 0]
        /\ Goto(t, "idle", [op[t] EXCEPT !.result = op[t].base])
        /\ UNCHANGED <<steps, allocator_mutex, owned>>

\* destroy_chain unmaps the links and takes them out of the global map.
DestroyUnmap(t) ==
    /\ pc[t] = "x_asi"
    /\ ThreadCommit(chain_space_index, destroy_chain(Cur, op[t].chain).asi, chain_mem)
    /\ Goto(t, "x_csi", op[t])
    /\ UNCHANGED <<steps, allocator_mutex, index_lock, owned>>

\* destroy_chain takes the chain out of the per-chain map and unlocks.
DestroyUnlink(t) ==
    LET M2 == destroy_chain(Cur, op[t].chain)
    IN  /\ pc[t] = "x_csi"
        /\ ThreadCommit(M2.csi, address_space_index, M2.mem)
        /\ index_lock' = [index_lock EXCEPT !.writer = 0]
        /\ Goto(t, "idle", op[t])
        /\ UNCHANGED <<steps, allocator_mutex, owned>>

\* A thread calls an operation.
Start(t) ==
    \/ StartAllocate(t) \/ StartDeallocate(t) \/ StartDeref(t)
    \/ StartCreate(t) \/ StartDestroy(t)

\* A thread goes on with the operation it is in.
Proceed(t) ==
    \/ LockAllocator(t) \/ LockShared(t) \/ LockWrite(t)
    \/ Scan(t) \/ GrowMap(t) \/ GrowFails(t) \/ GrowLink(t) \/ Take(t)
    \/ Free(t) \/ UnlockAllocator(t) \/ Read(t)
    \/ CreateMap(t) \/ CreateFails(t) \/ CreateLink(t)
    \/ DestroyUnmap(t) \/ DestroyUnlink(t)

\* Two chains, each holding a root object, made by create_chain and
\* allocate_from before the threads start.
Rooted(M, base) == allocate_from(create_chain(M, "", base), base, SizeofRoot, base).M

TwoChains ==
    LET M0 == [csi |-> [c \in {} |-> [s \in {} |-> 0]],
               asi |-> [b \in {} |-> LinkRecord(NO_CHAIN, 0, 0, NoFd)],
               mem |-> [c \in {} |-> EmptyFile],
               files |-> [fd \in Fds |-> EmptyFile]]
        M2 == Rooted(Rooted(M0, MinOf(Bases)), MinOf(Bases \ {MinOf(Bases)}))
    IN  /\ chain_space_index = M2.csi
        /\ address_space_index = M2.asi
        /\ chain_mem = M2.mem
        /\ files = M2.files
        /\ handles = [h \in Handles |-> NO_CHAIN]
        /\ open_fds = Fds
        /\ m_last = NoLast
        /\ steps = 0
        /\ track = [h \in Handles |-> NoTrack]
        /\ origin = [d \in {} |-> NO_CHAIN]

InitThreads == ArenaInit /\ ThreadInit /\ TwoChains

NextThreads == \E t \in Threads : Start(t) \/ Proceed(t)

SpecThreads == InitThreads /\ [][NextThreads]_vars

\* Every thread that is in an operation keeps running: the system schedules
\* each runnable thread, and a lock that stays free is granted.
SpecThreadsFair == SpecThreads /\ \A t \in Threads : WF_vars(Proceed(t))

\* ------------------------------------------------------ single calls

\* The outcome of a call is recorded; nothing else changes.
Probed(rec) ==
    /\ probe.op = "none"
    /\ probe' = rec
    /\ UNCHANGED <<arena_vars, manager_vars, thread_vars, vector_vars>>

\* What undefined behaviour on a null address can come to besides going on
\* with the null address: the process is stopped by the system.
Fault == Thrown - 1

\* Pointer<T>::operator->: get(), whatever it gives.
Pointer_arrow(M, self, position) == Pointer_get(M, self, position)

\* Pointer<T>::operator*: *get().  Applied to the null address get() gives
\* for a null pointer this is undefined: the caller goes on with an object
\* at the null address, or the process is stopped.  No exception is thrown.
Pointer_star(M, self, position) ==
    IF Pointer_get(M, self, position) = nullptr
    THEN {nullptr, Fault}
    ELSE {Pointer_get(M, self, position)}

\* offset_ptr<T>::operator->: the address offset bytes after the pointer.
offset_ptr_arrow(self, offset) ==
    IF offset = SizeMax THEN Thrown ELSE (self + offset) % (2 ^ WordBits)

\* offset_ptr<T>::operator*
offset_ptr_star(self, offset) == offset_ptr_arrow(self, offset)

\* Where the pointer objects under study sit: in the first cells of the two
\* chains and outside every chain; and the positions or offsets they hold.
DerefCells == 0..15
DerefSelves ==
    {nullptr + CellSize} \cup {b + k * CellSize : b \in DOMAIN address_space_index, k \in DerefCells}
DerefPositions ==
    {SizeMax, 0, FirstBlockPosition("") + AllocatorBlockSize}

InitDeref ==
    /\ ArenaInit /\ ThreadsIdle /\ TwoChains
    /\ probe \in {[op |-> "none", self |-> a, position |-> q, out |-> nullptr] :
                     a \in DerefSelves, q \in DerefPositions}

CallArrow ==
    Probed([probe EXCEPT !.op = "Pointer->",
                         !.out = Pointer_arrow(Cur, probe.self, probe.position)])
CallStar ==
    \E out \in Pointer_star(Cur, probe.self, probe.position) :
        Probed([probe EXCEPT !.op = "Pointer*", !.out = out])
CallOffsetArrow ==
    Probed([probe EXCEPT !.op = "offset_ptr->",
                         !.out = offset_ptr_arrow(probe.self, probe.position)])
CallOffsetStar ==
    Probed([probe EXCEPT !.op = "offset_ptr*",
                         !.out = offset_ptr_star(probe.self, probe.position)])

NextDeref == CallArrow \/ CallStar \/ CallOffsetArrow \/ CallOffsetStar

SpecDeref == InitDeref /\ [][NextDeref]_vars

\* ------------------------------------ offset_ptr<T>: copies and moves

\* offset_ptr<T>::operator=(const T* addr): the offset stored afterwards.
offset_ptr_assign(self, addr) ==
    IF addr # nullptr THEN (addr - self) % (2 ^ WordBits) ELSE SizeMax

\* offset_ptr(const offset_ptr&) and offset_ptr(offset_ptr&&), for the pointer
\* at self made from the one at other: *this = other.operator->().  The
\* offset stored afterwards, or Thrown.
offset_ptr_construct(self, other, offset) ==
    IF offset_ptr_arrow(other, offset) = Thrown THEN Thrown
    ELSE offset_ptr_assign(self, offset_ptr_arrow(other, offset))

\* operator=(const offset_ptr&) and operator=(offset_ptr&&): the same
\* statement in a function that returns offset_ptr<T>& and has no return
\* statement.  Flowing off its end is undefined: the caller goes on with the
\* offset stored, or the process is stopped.
offset_ptr_copy_assign(self, other, offset) ==
    IF offset_ptr_construct(self, other, offset) = Thrown THEN {Thrown}
    ELSE {offset_ptr_construct(self, other, offset), Fault}

\* Where the two pointers sit, and the offsets the source holds: null, itself,
\* a target after it and targets before it.  A source that is not null
\* designates an object, which is not at the null address.
OffsetSelves == {CellSize, 8 * CellSize, 128 * CellSize, (2 ^ WordBits) - CellSize}
Offsets == {SizeMax, 0, CellSize, 7 * CellSize, (2 ^ WordBits) - 2 * CellSize}

InitOffset ==
    /\ ArenaInit /\ ManagerInit /\ ThreadsIdle
    /\ probe \in {[op |-> "none", self |-> a, other |-> b, offset |-> o, out |-> 0] :
                     a \in OffsetSelves, b \in OffsetSelves, o \in Offsets}
    /\ offset_ptr_arrow(probe.other, probe.offset) # nullptr

OffsetCopyConstruct ==
    /\ probe.self # probe.other
    /\ Probed([probe EXCEPT !.op = "offset_ptr(const&)",
                   !.out = offset_ptr_construct(probe.self, probe.other, probe.offset)])
OffsetMoveConstruct ==
    /\ probe.self # probe.other
    /\ Probed([probe EXCEPT !.op = "offset_ptr(&&)",
                   !.out = offset_ptr_construct(probe.self, probe.other, probe.offset)])
OffsetCopyAssign ==
    \E out \in offset_ptr_copy_assign(probe.self, probe.other, probe.offset) :
        Probed([probe EXCEPT !.op = "=(const&)", !.out = out])
OffsetMoveAssign ==
    \E out \in offset_ptr_copy_assign(probe.self, probe.other, probe.offset) :
        Probed([probe EXCEPT !.op = "=(&&)", !.out = out])

NextOffset ==
    OffsetCopyConstruct \/ OffsetMoveConstruct \/ OffsetCopyAssign \/ OffsetMoveAssign

SpecOffset == InitOffset /\ [][NextOffset]_vars

\* ------------------------------------------------ PackedSet::iterator

\* The tables iterated over: one to MaxTable slots, 0 for an empty slot.
SlotValues == {0, 1, 2}
Tables == UNION {[1..n -> SlotValues] : n \in 1..MaxTable}

\* The value the member i has when a constructor does not set it: its
\* default member initializer in the class declaration.
iterator_i_default == 0

RECURSIVE skip_zeros(_, _), skip_zeros_reads(_, _)
\* while (i < iteratee->table.size() && iteratee->table.get(i) == 0) ++i;
\* the value of i afterwards.  Slot i of the table is table[i + 1].
skip_zeros(table, i) ==
    IF i < Len(table) /\ table[i + 1] = 0 THEN skip_zeros(table, i + 1) ELSE i
\* The indexes that loop passes to table.get.
skip_zeros_reads(table, i) ==
    IF i < Len(table)
    THEN {i} \cup (IF table[i + 1] = 0 THEN skip_zeros_reads(table, i + 1) ELSE {})
    ELSE {}

\* PackedSet::iterator::iterator(const PackedSet*), as begin() calls it.
iterator_begin(table) == skip_zeros(table, iterator_i_default)

\* PackedSet::iterator::iterator(const PackedSet*, size_t), as end() calls it.
iterator_end(table) == Len(table)

\* An operator++ that tests before it steps: while (...) ++i.
iterator_increment_test_first(table, i) == skip_zeros(table, i)

\* PackedSet::iterator::operator++: do ++i while (...).
iterator_increment(table, i) == skip_zeros(table, i + 1)

InitSet ==
    /\ ArenaInit /\ ManagerInit /\ ThreadsIdle
    /\ probe \in {[op |-> "none", table |-> t, i |-> 0, visited |-> <<>>, reads |-> {}] :
                     t \in Tables}

\* it = set.begin()
PackedSetBegin ==
    Probed([probe EXCEPT !.op = "iterating",
               !.i = iterator_begin(probe.table),
               !.reads = skip_zeros_reads(probe.table, iterator_i_default)])

\* One round of  for (; it != set.end(); ++it) use(*it);  operator* reads
\* slot i.  A caller visits no more slots than the table has.
PackedSetIncrement ==
    /\ probe.op = "iterating"
    /\ probe.i # iterator_end(probe.table)
    /\ Len(probe.visited) <= MaxTable
    /\ probe' = [probe EXCEPT
                    !.visited = Append(@, probe.i),
                    !.i = iterator_increment(probe.table, probe.i),
                    !.reads = @ \cup {probe.i}
                                \cup skip_zeros_reads(probe.table, probe.i + 1)]
    /\ UNCHANGED <<arena_vars, manager_vars, thread_vars, vector_vars>>

NextSet == PackedSetBegin \/ PackedSetIncrement

SpecSet == InitSet /\ [][NextSet]_vars

\* The loop keeps running until it ends.
SpecSetFair == SpecSet /\ WF_vars(NextSet)

\* ------------------------------- ArenaRefAllocatorRef<ref_t>: the root

\* Numbers of chars callers ask an ArenaAllocatorRef<char> for before the
\* arena is handed to an allocator whose root type has SizeofRoot bytes.
CharCounts == {1, 8}

\* A test for the root that asks only for the space before it.
root_fits_at(size, root_position, bytes) == size >= root_position

\* connect_or_create_root's test that memory for the root exists.
root_fits(size, root_position, bytes) == size >= root_position + bytes

\* ArenaRefAllocatorRef<ref_t>::connect_or_create_root, on the arena as
\* another allocator left it.  out is the position of the root returned, or
\* Thrown.
connect_or_create_root ==
    LET root_position == reserved_space
        rec == [op |-> "connect_or_create_root", size |-> ctx_size]
    IN  IF ctx_size < root_position
        THEN /\ ArenaAllocatorRef_allocate(SizeofRoot, FALSE)
             /\ probe' = [op |-> rec.op, size |-> rec.size, created |-> TRUE,
                          out |-> IF /\ last'.p = root_position
                                     /\ root_fits(ctx_size', root_position, SizeofRoot)
                                  THEN root_position ELSE Thrown]
        ELSE /\ probe' = [op |-> rec.op, size |-> rec.size, created |-> FALSE,
                          out |-> IF root_fits(ctx_size, root_position, SizeofRoot)
                                  THEN root_position ELSE Thrown]
             /\ UNCHANGED arena_vars

AllocateChars ==
    /\ \E n \in CharCounts : ArenaAllocatorRef_allocate(n, FALSE)
    /\ UNCHANGED <<manager_vars, thread_vars, probe, vector_vars>>
ConnectOrCreateRoot ==
    /\ connect_or_create_root
    /\ UNCHANGED <<manager_vars, thread_vars, vector_vars>>

NextRoot == AllocateChars \/ Deallocate \/ ConnectOrCreateRoot

SpecRoot == Init /\ [][NextRoot]_vars

\* ------------------------------------------- the Manager called directly

\* Manager::create_chain(prefix)
Manager_create_chain(prefix, base) ==
    /\ base \in MmapChoices(Cur)
    /\ Commit(create_chain(Cur, prefix, base), handles,
              [NoLast EXCEPT !.op = "create_chain", !.dst = base, !.prefix = prefix])

\* Manager::allocate_from(chain, bytes)
Manager_allocate_from(chain, bytes, base) ==
    LET got == allocate_from(Cur, chain, bytes, base)
    IN  /\ IF got.grew
           THEN /\ base \in MmapChoices(Cur)
                /\ TotalSize(Cur, chain) + link_bytes(TotalSize(Cur, chain), bytes)
                      <= MaxChainBytes
           ELSE base = MinOf(Bases)
        /\ Commit(got.M, handles,
                  [NoLast EXCEPT !.op = "allocate_from", !.chain = chain,
                                 !.grew = got.grew, !.bytes = bytes,
                                 !.result = get_address_in_chain(got.M, chain,
                                                                 got.position)])

\* Manager::deallocate(address)
Manager_deallocate(address) ==
    Commit(deallocate(Cur, address), handles,
           [NoLast EXCEPT !.op = "deallocate", !.chain = get_chain(Cur, address),
                          !.addr = address])

CreateChain ==
    \E prefix \in Prefixes, base \in Bases : Manager_create_chain(prefix, base)
AllocateFrom ==
    \E chain \in Chains(Cur), bytes \in ByteCounts, base \in Bases :
        Manager_allocate_from(chain, bytes, base)
DeallocateFrom == \E address \in LiveAddresses : Manager_deallocate(address)

NextChain == CreateChain \/ AllocateFrom \/ DeallocateFrom \/ DestroyChain

SpecChain == Init /\ [][NextChain]_vars

\* ------------------------------------------------------ CompatVector<T>

Lengths == 0..MaxLen
Items == 0..MaxItem
\* What a cell of a buffer holds before anything is constructed in it.
Raw == 0 - 1

\* std::allocator<T>::allocate(n): a buffer of n cells that nothing else uses.
\* Buffers are named in the order they are handed out, from 1; 0 is nullptr.
std_allocate(H, n) ==
    Append(H, [cells |-> [i \in 1..n |-> Raw], frees |-> 0, stale |-> FALSE])
\* std::allocator<T>::deallocate(p, n). What the cells held is gone; frees
\* counts one deallocation, or 2 for more than one.
std_deallocate(H, p) ==
    [H EXCEPT ![p].frees = IF @ = 0 THEN 1 ELSE 2, ![p].cells = <<>>]
\* Any use of the cells of buffer p: construction, destruction, read, write.
touch(H, p) == IF H[p].frees > 0 THEN [H EXCEPT ![p].stale = TRUE] ELSE H

\* The vectors and the heap taken together, as the operations below see them.
Store == [v |-> vectors, h |-> heap]

\* CompatVector::size
CompatVector_size(S, self) == S.v[self].length

\* A reserve that takes the new buffer and frees the old one without moving
\* the elements over.
CompatVector_reserve_without_move(S, self, new_reserved_length) ==
    LET old_first == S.v[self].first
        new_first == Len(S.h) + 1
        grown     == std_allocate(S.h, new_reserved_length)
        freed     == IF old_first # nullptr THEN std_deallocate(grown, old_first)
                     ELSE grown
    IN  IF new_reserved_length > S.v[self].reserved_length
        THEN [v |-> [S.v EXCEPT ![self].reserved_length = new_reserved_length,
                                ![self].first = new_first],
              h |-> freed]
        ELSE S

\* CompatVector::reserve
CompatVector_reserve(S, self, new_reserved_length) ==
    LET old_first == S.v[self].first
        n         == S.v[self].length
        new_first == Len(S.h) + 1
        grown     == std_allocate(S.h, new_reserved_length)
        moved     == IF n = 0 THEN grown
                     ELSE [touch(grown, old_first) EXCEPT
                              ![new_first].cells =
                                 [i \in 1..new_reserved_length |->
                                     IF i <= n THEN S.h[old_first].cells[i] ELSE Raw],
                              ![old_first].cells =
                                 [i \in DOMAIN @ |-> IF i <= n THEN Raw ELSE @[i]]]
        freed     == IF old_first # nullptr THEN std_deallocate(moved, old_first)
                     ELSE moved
    IN  IF new_reserved_length > S.v[self].reserved_length
        THEN [v |-> [S.v EXCEPT ![self].reserved_length = new_reserved_length,
                                ![self].first = new_first],
              h |-> freed]
        ELSE S

\* CompatVector::resize
CompatVector_resize(S, self, new_size) ==
    LET n  == S.v[self].length
        R  == IF new_size > S.v[self].reserved_length
              THEN CompatVector_reserve(S, self, Max(new_size, n * RESIZE_FACTOR))
              ELSE S
        at == R.v[self].first
        H  == IF new_size < n
              THEN [touch(R.h, at) EXCEPT
                       ![at].cells = [i \in DOMAIN @ |->
                                         IF i > new_size /\ i <= n THEN Raw ELSE @[i]]]
              ELSE [touch(R.h, at) EXCEPT
                       ![at].cells = [i \in DOMAIN @ |->
                                         IF i > n /\ i <= new_size THEN 0 ELSE @[i]]]
    IN  IF new_size = n THEN S
        ELSE [v |-> [R.v EXCEPT ![self].length = new_size], h |-> H]

\* CompatVector::clear
CompatVector_clear(S, self) ==
    LET R == CompatVector_resize(S, self, 0)
    IN  [v |-> [R.v EXCEPT ![self].reserved_length = 0],
         h |-> IF R.v[self].first # nullptr THEN std_deallocate(R.h, R.v[self].first)
               ELSE R.h]

\* CompatVector::at(index) = item; Thrown when the index is out of range.
CompatVector_at_put(S, self, index, item) ==
    IF index >= CompatVector_size(S, self) THEN Thrown
    ELSE [S EXCEPT !.h = [touch(S.h, S.v[self].first) EXCEPT
                             ![S.v[self].first].cells[index + 1] = item]]

\* CompatVector::~CompatVector
CompatVector_destroy(S, self) ==
    LET at == S.v[self].first
        n  == S.v[self].length
        H  == IF n = 0 THEN S.h
              ELSE [touch(S.h, at) EXCEPT
                       ![at].cells = [i \in DOMAIN @ |-> IF i <= n THEN Raw ELSE @[i]]]
    IN  [v |-> [S.v EXCEPT ![self] = [@ EXCEPT !.exists = FALSE]],
         h |-> IF at # nullptr THEN std_deallocate(H, at) ELSE S.h]

\* CompatVector(CompatVector&& other)
CompatVector_move_construct(S, self, other) ==
    [S EXCEPT !.v = [@ EXCEPT
        ![self] = [S.v[other] EXCEPT !.exists = TRUE],
        ![other] = [@ EXCEPT !.length = 0, !.reserved_length = 0, !.first = nullptr]]]

\* CompatVector::operator=(CompatVector&& other)
CompatVector_move_assign(S, self, other) ==
    LET R == CompatVector_clear(S, self)
    IN  IF self = other THEN S
        ELSE [R EXCEPT !.v = [@ EXCEPT
                 ![self] = [R.v[other] EXCEPT !.exists = TRUE],
                 ![other] = [@ EXCEPT !.length = 0, !.reserved_length = 0,
                                      !.first = nullptr]]]

\* One operation on a vector: the vectors and the heap become those of S.
VectorCommit(S, rec) ==
    /\ Len(S.h) <= MaxBuffers
    /\ vectors' = S.v
    /\ heap' = S.h
    /\ v_last' = [rec EXCEPT !.before = vectors[rec.self]]
    /\ UNCHANGED <<arena_vars, manager_vars, thread_vars, probe>>

Existing == {v \in Vectors : vectors[v].exists}

VectorConstruct ==
    \E v \in Vectors \ Existing :
        VectorCommit([Store EXCEPT !.v[v] = CompatVector_default],
                     [NoVectorOp EXCEPT !.op = "construct", !.self = v])
VectorReserve ==
    \E v \in Existing, n \in Lengths :
        VectorCommit(CompatVector_reserve(Store, v, n),
                     [NoVectorOp EXCEPT !.op = "reserve", !.self = v, !.n = n])
VectorResize ==
    \E v \in Existing, n \in Lengths :
        VectorCommit(CompatVector_resize(Store, v, n),
                     [NoVectorOp EXCEPT !.op = "resize", !.self = v, !.n = n])
VectorClear ==
    \E v \in Existing :
        VectorCommit(CompatVector_clear(Store, v),
                     [NoVectorOp EXCEPT !.op = "clear", !.self = v])
VectorPut ==
    \E v \in Existing, i \in Lengths, item \in Items :
        LET threw == i >= CompatVector_size(Store, v)
        IN  VectorCommit(IF threw THEN Store ELSE CompatVector_at_put(Store, v, i, item),
                         [NoVectorOp EXCEPT !.op = "at", !.self = v, !.n = i,
                                            !.threw = threw])
VectorMoveConstruct ==
    \E v \in Vectors \ Existing, o \in Existing :
        VectorCommit(CompatVector_move_construct(Store, v, o),
                     [NoVectorOp EXCEPT !.op = "move_construct", !.self = v, !.other = o])
VectorMoveAssign ==
    \E v \in Existing, o \in Existing :
        VectorCommit(CompatVector_move_assign(Store, v, o),
                     [NoVectorOp EXCEPT !.op = "move_assign", !.self = v, !.other = o])
VectorDestroy ==
    \E v \in Existing :
        VectorCommit(CompatVector_destroy(Store, v),
                     [NoVectorOp EXCEPT !.op = "destroy", !.self = v])

NextVector ==
    \/ VectorConstruct \/ VectorReserve \/ VectorResize \/ VectorClear \/ VectorPut
    \/ VectorMoveConstruct \/ VectorMoveAssign \/ VectorDestroy

SpecVector == Init /\ [][NextVector]_vars

\* ------------------------------------------------------ big_endian<T>

\* An integer of n bytes is written as its n base-256 digits, most
\* significant first; a signed one by its two's complement digits.
HostOrders == {"little", "big"}

\* The integer types T: std::numeric_limits<T>::digits and sizeof(T).
IntegerTypes ==
    {[digits |-> 15, bytes |-> 2], [digits |-> 16, bytes |-> 2],
     [digits |-> 31, bytes |-> 4], [digits |-> 32, bytes |-> 4],
     [digits |-> 63, bytes |-> 8], [digits |-> 64, bytes |-> 8]}

\* The values tried: the extreme and near-extreme leading and trailing
\* bytes, and all-zero or all-one bytes between.
Numerals(n) ==
    {x \in [1..n -> {0, 1, 127, 128, 255}] :
        /\ x[n] \in {0, 1, 255}
        /\ \A i \in 2..(n - 1) : x[i] \in {0, 255}}

Reversed(x) == [i \in 1..Len(x) |-> x[Len(x) + 1 - i]]

\* The bytes in memory, lowest address first, of a host integer, and the
\* host integer that bytes in memory are.
native_store(host, x) == IF host = "big" THEN x ELSE Reversed(x)
native_load(host, bytes) == IF host = "big" THEN bytes ELSE Reversed(bytes)

\* An htobe that leaves the integer as it is on every host.
htobe_as_is(host, x) == x

\* htobe16, htobe32, htobe64: the byte swap on a little-endian host.
htobe(host, x) == IF host = "little" THEN Reversed(x) ELSE x

\* be16toh, be32toh, be64toh
betoh(host, x) == IF host = "little" THEN Reversed(x) ELSE x

\* The switch on std::numeric_limits<T>::digits: the width handled.
handled_bytes(digits) ==
    CASE digits \in {63, 64} -> 8
      [] digits \in {31, 32} -> 4
      [] digits \in {15, 16} -> 2
      [] OTHER -> Thrown

\* big_endian<T>::operator=(x): the storage afterwards.
big_endian_assign(host, type, x) ==
    IF handled_bytes(type.digits) = Thrown
    THEN Thrown
    ELSE native_store(host, htobe(host, x))

\* big_endian<T>::operator T
big_endian_read(host, type, storage) ==
    IF handled_bytes(type.digits) = Thrown
    THEN Thrown
    ELSE betoh(host, native_load(host, storage))

\* big_endian<T>::big_endian(): the storage afterwards.
big_endian_zero(type) == [i \in 1..type.bytes |-> 0]

\* The int16_t or uint16_t that two digits are.
Int16Of(type, x) ==
    LET u == x[1] * 256 + x[2]
    IN  IF type.digits = 15 /\ u >= 32768 THEN u - 65536 ELSE u

InitCell ==
    /\ ArenaInit /\ ManagerInit /\ ThreadsIdle
    /\ probe \in UNION {[op : {"none"}, host : HostOrders, type : {ty},
                         x : Numerals(ty.bytes), storage : {<<>>}, out : {<<>>}] :
                           ty \in IntegerTypes}

CellAssign == Probed([probe EXCEPT !.op = "assigned",
                         !.storage = big_endian_assign(probe.host, probe.type, probe.x)])
CellRead ==
    /\ probe.op = "assigned"
    /\ probe' = [probe EXCEPT !.op = "read",
                    !.out = big_endian_read(probe.host, probe.type, probe.storage)]
    /\ UNCHANGED <<arena_vars, manager_vars, thread_vars, vector_vars>>
CellDefault ==
    Probed([probe EXCEPT !.op = "default",
               !.storage = big_endian_zero(probe.type),
               !.out = big_endian_read(probe.host, probe.type, big_endian_zero(probe.type))])

NextCell == CellAssign \/ CellRead \/ CellDefault

SpecCell == InitCell /\ [][NextCell]_vars

\* The segments the per-chain map describes, and those the global map
\* describes.
IndexedByChain(M) ==
    UNION {{[chain |-> c, start |-> st, base |-> M.csi[c][st]] : st \in DOMAIN M.csi[c]} :
              c \in DOMAIN M.csi}
IndexedByAddress(M) ==
    {[chain |-> M.asi[b].chain, start |-> M.asi[b].start, base |-> b] : b \in DOMAIN M.asi}
IndexesAgree(M) == IndexedByChain(M) = IndexedByAddress(M)

\* ------------------------------------------------------------------ claims

\* C1: after any sequence of allocate and deallocate calls the blocks reached
\* from first_free by next are in strictly ascending position, first_free has
\* a null prev, last_free is the last block reached and has a null next, and
\* every block with a non-null prev or next is reached from first_free.
C1_FreeListWellFormed ==
    /\ \A i \in 1..(Len(FreeList) - 1) : FreeList[i] < FreeList[i + 1]
    /\ FirstFree # NullRef => get_prev(mem, FirstFree) = NullRef
    /\ LastFree = (IF FreeList = <<>> THEN NullRef ELSE FreeList[Len(FreeList)])
    /\ LastFree # NullRef => get_next(mem, LastFree) = NullRef
    /\ \A b \in Blocks :
          (~IsNullPtr(mem[b].prev) \/ ~IsNullPtr(mem[b].next)) => b \in FreeSet

\* C2: after every completed allocate or deallocate no two blocks on the free
\* list are immediately adjacent: there are no listed blocks a, b with
\* position(a) + header size + size(a) = position(b).
C2_NoAdjacentFreeBlocks ==
    \A a, b \in FreeSet : ~immediately_before(mem, a, b)

\* C3: in every reachable state the blocks tile the arena: the allocator's
\* body plus, over all blocks, header size + size equals the total size.
C3_BlocksTileArena ==
    ArenaBodySize + tiling_bytes(Tiling) = ctx_size

\* C4: for every address p returned by allocate(n) and not yet deallocated,
\* the header at p - header size has size >= n and null prev and next,
\* whatever calls came in between.
C4_LiveHeaderIntact ==
    \A p \in DOMAIN live :
        /\ mem[get_from_data(p)].size >= live[p]
        /\ IsNullPtr(mem[get_from_data(p)].prev)
        /\ IsNullPtr(mem[get_from_data(p)].next)

\* C5: the regions [p, p + n) of the live allocations are pairwise disjoint
\* (no address is handed out twice) and none overlaps a free block, a block
\* header or the allocator's body.
C5_LiveRegionsDisjoint ==
    /\ ~last.dup
    /\ \A p, q \in DOMAIN live :
          p # q => (p + live[p] <= q \/ q + live[q] <= p)
    /\ \A p \in DOMAIN live : \A b \in FreeSet :
          p + live[p] <= b \/ get_user_data(b) + mem[b].size <= p
    /\ \A p \in DOMAIN live : \A b \in Blocks :
          p + live[p] <= b \/ get_user_data(b) <= p
    /\ \A p \in DOMAIN live : p >= ArenaBodySize /\ p + live[p] <= ctx_size

\* C6: k allocations, none of which grows the arena, followed by the
\* deallocation of the k blocks in any order leave the free list (positions,
\* sizes, first_free, last_free) as it was before the allocations.
C6_BatchRestoresFreeList ==
    (batch.active /\ batch.freeing /\ batch.ptrs = {}) => FreeListShape = batch.base

\* The operations that change the bytes of the chain they are made in.
Mutations == {"allocate", "deallocate", "write", "assign"}

C8_PointersStable ==
    [][\A c \in Chains(Cur) \ m_last'.destroyed :
          (m_last'.op = "allocate" \/ m_last'.chain # c) =>
             \A q \in PointerCells(chain_mem[c]) :
                LET v == chain_mem[c].data[q].v
                IN  (v # SizeMax /\ v \in Allocated(chain_mem[c])) =>
                       /\ c \in Chains(Cur')
                       /\ q \in PointerCells(chain_mem'[c])
                       /\ PointerAddresses(Cur', c)[q] = PointerAddresses(Cur, c)[q]
                       /\ (v \in DOMAIN chain_mem[c].data) = (v \in DOMAIN chain_mem'[c].data)
                       /\ v \in DOMAIN chain_mem[c].data =>
                             chain_mem'[c].data[v] = chain_mem[c].data[v]]_vars

\* A chain that holds a non-null Pointer to a live allocation has just been
\* grown by an allocation.
C8_Witness ==
    /\ m_last.op = "allocate" /\ m_last.grew
    /\ \E q \in PointerCells(chain_mem[m_last.chain]) :
          /\ chain_mem[m_last.chain].data[q].v \in Allocated(chain_mem[m_last.chain])
          /\ PointerAddresses(Cur, m_last.chain)[q] \notin {nullptr, Thrown}

C11_MoveEmptiesSource ==
    /\ m_last.op = "move" =>
          /\ handles[m_last.h] = m_last.chain
          /\ handles[m_last.from] = NO_CHAIN
    /\ \A a, b \in DOMAIN handles :
          (a # b /\ handles[a] = handles[b]) => handles[a] = NO_CHAIN

\* C12: assigning a chain pointer the address of an object in a different
\* chain, or of an address in no chain, fails, and leaves the stored position
\* (indeed all of memory, the files and both indexes) unchanged.
C12_ForeignTarget ==
    /\ m_last'.op \in {"assign", "assign_throws"}
    /\ m_last'.addr # nullptr
    /\ get_chain(Cur, m_last'.addr) # m_last'.chain
C12_AssignFailsUnchanged ==
    [][(steps' # steps /\ C12_ForeignTarget) =>
          /\ m_last'.op = "assign_throws"
          /\ Cur' = Cur]_vars
\* A pointer in one chain was assigned the root of another live chain.
C12_Witness ==
    /\ m_last.op = "assign_throws"
    /\ m_last.chain # NO_CHAIN
    /\ get_chain(Cur, m_last.addr) \notin {NO_CHAIN, m_last.chain}

\* C13: binding to a non-empty file whose first bytes differ from the given
\* prefix fails: the handle holds no chain, no chain or segment is registered
\* in either index, and the file is not modified.
C13_FileRejected ==
    /\ m_last'.op = "load"
    /\ files[m_last'.fd].size > 0
    /\ files[m_last'.fd].prefix # m_last'.prefix
C15_Destroys == m_last'.op \in {"reset", "destroy_chain"}
C15_DestroyRemovesChain ==
    [][(steps' # steps /\ C15_Destroys) =>
          \A c \in m_last'.destroyed :
              /\ c \notin Chains(Cur')
              /\ \A s \in Segments(Cur, c) :
                    /\ s.base \notin DOMAIN address_space_index'
                    /\ get_chain(Cur', s.base) = NO_CHAIN
                    /\ get_chain(Cur', s.base + s.length - 1) = NO_CHAIN
              /\ \A a \in AllocatedAddresses(Cur, c) : get_chain(Cur', a) = NO_CHAIN
              /\ \A d \in Chains(Cur) \ {c} :
                    /\ d \in Chains(Cur')
                    /\ Segments(Cur', d) = Segments(Cur, d)
                    /\ chain_mem'[d] = chain_mem[d]
                    /\ \A s \in Segments(Cur, d) :
                          address_space_index'[s.base] = address_space_index[s.base]]_vars
\* A chain of more than one segment was destroyed while another chain lived.
C15_Witness ==
    /\ m_last.op \in {"reset", "destroy_chain"}
    /\ Cardinality(m_last.unmapped) > 1
    /\ Chains(Cur) # {}
    /\ \A b \in m_last.unmapped : get_chain(Cur, b) = NO_CHAIN

\* The pc values at which a thread is inside a chain's allocator.
InAllocator(t) ==
    pc[t] \in {"a_scan_shared", "a_scan", "a_grow_write", "a_grow_asi", "a_grow_csi",
               "a_take_shared", "a_take", "a_release", "d_shared", "d_free", "d_release"}
\* The allocations handed out: those the threads hold and those allocate_from
\* is about to return.
Handed ==
    owned \cup {[t |-> t, chain |-> op[t].chain, addr |-> op[t].result,
                 bytes |-> op[t].bytes] :
                   t \in {t \in Threads : pc[t] = "a_release" /\ op[t].result # Thrown}}

\* C16: for each chain at most one thread at a time is inside the chain's
\* allocator (allocate, deallocate and the grow step never interleave on one
\* chain), and the blocks handed out to the threads never overlap.
C16_AllocatorExclusive ==
    /\ \A t1, t2 \in Threads :
          (t1 # t2 /\ InAllocator(t1) /\ InAllocator(t2)) => op[t1].chain # op[t2].chain
    /\ \A t \in Threads : InAllocator(t) => allocator_mutex[op[t].chain] = t
    /\ \A r1, r2 \in Handed :
          r1 # r2 => \/ r1.addr + r1.bytes <= r2.addr
                     \/ r2.addr + r2.bytes <= r1.addr
\* One thread waits for the allocator of a chain while another allocates from
\* that chain and has just taken its block.
C16_Witness ==
    \E t1, t2 \in Threads :
        /\ pc[t1] = "a_mutex"
        /\ pc[t2] = "a_release"
        /\ op[t1].chain = op[t2].chain
        /\ op[t2].result # Thrown

\* The lock hierarchy: the write lock is not requested by a thread holding
\* the shared lock, the allocator lock is not requested by a thread holding
\* the index lock, and a grow holds the allocator lock of its chain.
LockOrder ==
    \A t \in Threads :
        /\ pc[t] \in {"a_grow_write", "c_write", "x_write"} => t \notin index_lock.readers
        /\ pc[t] \in {"a_mutex", "d_mutex"} =>
              index_lock.writer # t /\ t \notin index_lock.readers
        /\ (index_lock.writer = t /\ op[t].kind = "allocate") =>
              allocator_mutex[op[t].chain] = t
\* C17: a thread takes the index write lock only after the chain's allocator
\* lock, never the reverse, and never requests it while holding the index lock
\* shared; so under fair scheduling every started operation completes (no
\* deadlock among allocate, deallocate, grow, create, destroy and lookups).
C17_LockHierarchyLive ==
    /\ []LockOrder
    /\ \A t \in Threads : (pc[t] # "idle") ~> (pc[t] = "idle")
\* A grow holds the write lock and its chain's allocator lock while the
\* other thread waits for a lock.
C17_Witness ==
    \E t1, t2 \in Threads :
        /\ pc[t1] = "a_grow_csi"
        /\ index_lock.writer = t1
        /\ allocator_mutex[op[t1].chain] = t1
        /\ pc[t2] \in {"a_mutex", "a_scan_shared", "l_shared", "c_write", "x_write"}

\* The pc values at which a thread resolves addresses through the indexes.
Resolving(t) == pc[t] \in {"a_scan", "a_take", "d_free", "l_read"}
\* C18: lookups never run while the indexes are being changed: a thread that
\* resolves addresses finds no writer and finds both indexes describing the
\* same segments, and a dereference of a pointer to a chain's root gives the
\* address it gave before, whatever grow, create or destroy of other chains
\* went on meanwhile.
C18_LookupsSeeWholeIndexes ==
    /\ (\E t \in Threads : Resolving(t)) =>
          index_lock.writer = 0 /\ IndexesAgree(Cur)
    /\ \A t \in Threads : Resolving(t) => t \in index_lock.readers
    /\ index_lock.writer # 0 => index_lock.readers = {}
    /\ \A t \in Threads :
          (pc[t] = "idle" /\ op[t].kind = "deref") => op[t].result = op[t].expect
\* A dereference into one chain has started and waits, while the grow of
\* another chain has entered the new link in one index and not yet the other.
C18_Witness ==
    \E t1, t2 \in Threads :
        /\ pc[t1] = "l_shared"
        /\ pc[t2] = "a_grow_csi"
        /\ op[t1].chain # op[t2].chain
        /\ ~IndexesAgree(Cur)

\* The segments of a chain in the order of their start positions cover
\* [0, total size) without gap or overlap.
Covers(M, c) ==
    /\ 0 \in DOMAIN M.csi[c]
    /\ \A st \in DOMAIN M.csi[c] :
          LET end == st + M.asi[M.csi[c][st]].length
          IN  \/ end \in DOMAIN M.csi[c]
              \/ end = M.mem[c].size /\ end = TotalSize(M, c)
    /\ \A s1, s2 \in DOMAIN M.csi[c] :
          s1 < s2 => s1 + M.asi[M.csi[c][s1]].length <= s2
\* C19: in every reachable state the segments of each live chain cover
\* [0, total_size) with no gap and no overlap, the segments of all chains are
\* pairwise disjoint in address, and the per-chain map and the global map
\* describe exactly the same set of segments.
C19_IndexesConsistent ==
    /\ IndexesAgree(Cur)
    /\ \A c \in Chains(Cur) : Covers(Cur, c)
    /\ \A b1, b2 \in DOMAIN address_space_index :
          b1 < b2 => b1 + address_space_index[b1].length <= b2
\* A chain of more than one segment lives next to another chain.
C19_Witness ==
    /\ Cardinality(Chains(Cur)) > 1
    /\ \E c \in Chains(Cur) : Cardinality(DOMAIN chain_space_index[c]) > 1
    /\ IndexesAgree(Cur)

\* Places a Pointer<T> object can sit at: inside the chains' allocations, at
\* the places segments are mapped at (mapped or not), and outside every
\* segment.
C20_Locations == {nullptr + 1} \cup Bases \cup LiveAddresses
\* C20: a default-constructed chain pointer and one assigned null are null:
\* they convert to false and get() gives null, not an error, wherever the
\* pointer object sits, inside a chain or outside every chain.
C20_NullIsNullEverywhere ==
    \A self \in C20_Locations :
        \A position \in {Pointer_default, Pointer_assign(Cur, self, nullptr)} :
            /\ ~Pointer_bool(position)
            /\ Pointer_get(Cur, self, position) = nullptr
\* A chain lives, a pointer in it was just assigned null and holds the null
\* position, and some places lie outside every chain.
C20_Witness ==
    /\ m_last.op = "assign"
    /\ m_last.addr = nullptr
    /\ \E c \in Chains(Cur) : \E q \in PointerCells(chain_mem[c]) :
          chain_mem[c].data[q].v = Pointer_default
    /\ \E self \in C20_Locations : get_chain(Cur, self) = NO_CHAIN

\* C21: dereferencing a null chain pointer with operator* or operator->
\* gives the caller an error, not an object.
C21_NullDerefSurfaces ==
    (probe.op \in {"Pointer->", "Pointer*", "offset_ptr->", "offset_ptr*"}
        /\ probe.position = SizeMax) => probe.out = Thrown

\* C22: for every integer x of 16, 32 or 64 bits, signed or unsigned, a cell
\* assigned x holds the digits of x most significant first on either kind of
\* host, and reading it gives x back; a default-constructed cell is all zero
\* bytes and reads as 0.
C22_BigEndianRoundTrip ==
    /\ probe.op \in {"assigned", "read"} => probe.storage = probe.x
    /\ probe.op = "read" => probe.out = probe.x
    /\ probe.op = "default" =>
          /\ \A i \in 1..probe.type.bytes : probe.storage[i] = 0
          /\ Len(probe.storage) = probe.type.bytes
          /\ \A i \in 1..probe.type.bytes : probe.out[i] = 0
\* A negative 16-bit value, which is not its own byte reversal, was written
\* and read back on a little-endian host.
C22_Witness ==
    /\ probe.op = "read"
    /\ probe.host = "little"
    /\ probe.type.digits = 15
    /\ Int16Of(probe.type, probe.x) = -32767
    /\ probe.storage = <<128, 1>>
    /\ Int16Of(probe.type, probe.out) = -32767

\* The chain of the last allocate_from was a freshly created anonymous chain
\* without prefix, and 2000 bytes were asked for.
C23_FreshAllocate2000 ==
    /\ steps' # steps
    /\ m_last'.op = "allocate_from"
    /\ m_last'.bytes = 2000
    /\ chain_mem[m_last'.chain] = set_up_allocator_at("", BASE_SIZE)
    /\ Cardinality(Segments(Cur, m_last'.chain)) = 1
\* A second segment exists and the returned address lies in it.
C23_InSecondSegment ==
    /\ Cardinality(Segments(Cur', m_last'.chain)) = 2
    /\ \E sg \in Segments(Cur', m_last'.chain) :
          /\ sg.start = BASE_SIZE
          /\ sg.base <= m_last'.result
          /\ m_last'.result < sg.base + sg.length
C24_ClearForgetsBuffer ==
    v_last.op = "clear" =>
        /\ vectors[v_last.self].length = 0
        /\ vectors[v_last.self].reserved_length = 0
        /\ v_last.before.first # nullptr => heap[v_last.before.first].frees > 0
        /\ vectors[v_last.self].first = nullptr

\* C25: when allocate(n) finds no free block of size >= n, the space
\* appended has exactly max(total size before, n + header size) bytes, so
\* the total size at least doubles on every growth.
C25_GrowthDoubles ==
    [][(calls' # calls /\ last'.op = "allocate" /\ last'.grew) =>
          /\ first_fit(mem, FirstFree, last'.bytes) = NullRef
          /\ ctx_size' - ctx_size = Max(ctx_size, last'.bytes + BlockHeaderSize)
          /\ ctx_size' >= 2 * ctx_size]_vars
\* allocate has just grown an arena that was larger than the block asked
\* for, so the growth doubled it.
C25_Witness ==
    /\ last.op = "allocate"
    /\ last.grew
    /\ 2 * (last.bytes + BlockHeaderSize) < ctx_size
    /\ Cardinality(DOMAIN live) >= 2

\* The bytes the blocks of S take in the arena m, headers included.
RECURSIVE bytes_of(_, _)
bytes_of(m, S) ==
    IF S = {} THEN 0
    ELSE LET b == CHOOSE x \in S : TRUE
         IN  BlockHeaderSize + m[b].size + bytes_of(m, S \ {b})
\* C26: when allocate grows, one new free block covers the whole appended
\* space and is linked at the tail of the free list: first_free changes only
\* if the list was empty, and every block that was free before the growth is
\* still on the free list. Seen at the end of the call, the new block (with
\* what was split off it) fills the appended space, the list ends where it
\* ended or at the split-off remainder, and the blocks free before are listed.
C26_GrowthLinksAtTail ==
    [][(calls' # calls /\ last'.op = "allocate" /\ last'.grew) =>
          /\ get_from_data(last'.p) = ctx_size
          /\ bytes_of(mem', DOMAIN mem' \ DOMAIN mem) = ctx_size' - ctx_size
          /\ FreeSet \subseteq FreeSet'
          /\ FirstFree # NullRef => FirstFree' = FirstFree
          /\ LastFree' \in (DOMAIN mem' \ DOMAIN mem) \cup {LastFree}]_vars

\* The listed blocks that can hold user_bytes, and the listed blocks that
\* come before block b on the list.
Fitting(user_bytes) == {b \in FreeSet : mem[b].size >= user_bytes}
ListedBefore(b) ==
    {FreeList[i] : i \in {j \in 1..Len(FreeList) : \A k \in 1..j : FreeList[k] # b}}
\* C27: allocate(n) is first-fit: when the free list holds a block of size
\* >= n, the block handed out (or split) is the lowest-position such block,
\* the arena does not grow, and the free blocks before it in the list stay
\* free blocks of the same size.
C27_FirstFit ==
    [][(calls' # calls /\ last'.op = "allocate" /\ Fitting(last'.bytes) # {}) =>
          /\ ~last'.grew
          /\ get_from_data(last'.p) = MinOf(Fitting(last'.bytes))
          /\ \A b \in ListedBefore(get_from_data(last'.p)) :
                b \in FreeSet' /\ mem'[b].size = mem[b].size]_vars

\* C28: allocate(n) splits the chosen free block exactly when the leftover
\* (block size minus n) is at least the size of a block header; the returned
\* block then has size exactly n and the remainder is a free block in its
\* place in the list; otherwise the whole block is handed out unsplit.
C28_SplitThreshold ==
    [][(calls' # calls /\ last'.op = "allocate" /\ ~last'.grew) =>
          LET found == get_from_data(last'.p)
              leftover == mem[found].size - last'.bytes
              second == split_position(found, last'.bytes)
          IN  /\ last'.split <=> leftover >= BlockHeaderSize
              /\ IF leftover >= BlockHeaderSize
                 THEN /\ mem'[found].size = last'.bytes
                      /\ second \in FreeSet'
                      /\ mem'[second].size = leftover - BlockHeaderSize
                 ELSE /\ mem'[found].size = mem[found].size
                      /\ DOMAIN mem' = DOMAIN mem]_vars

\* The free blocks of a chain that end exactly where a later segment begins
\* with a free block.
AcrossSegments(c) ==
    {b \in FreeBlockSet(chain_mem[c]) :
        LET e == b + AllocatorBlockSize + chain_mem[c].blocks[b].size
        IN  /\ e \in FreeBlockSet(chain_mem[c])
            /\ \E sg \in Segments(Cur, c) : sg.start = e}
\* C29: deallocate never merges two free blocks that lie in different
\* segments, even when the first ends at the position where the second
\* starts; every free block lies entirely inside one segment.
C29_FreeBlocksWithinSegments ==
    \A c \in Chains(Cur) :
        \A b \in FreeBlockSet(chain_mem[c]) :
            \E sg \in Segments(Cur, c) :
                /\ sg.start <= b
                /\ b + AllocatorBlockSize + chain_mem[c].blocks[b].size
                      <= sg.start + sg.length
\* A deallocation has just left two free blocks that touch at a segment
\* boundary.
C29_Witness ==
    /\ m_last.op = "deallocate"
    /\ m_last.chain \in Chains(Cur)
    /\ AcrossSegments(m_last.chain) # {}

\* C30: right after create_chain(prefix) with a prefix of at most 16 bytes,
\* the chain has one segment, at position 0 and of at least BASE_SIZE bytes;
\* the prefix is at its start and the allocator header at len(prefix); the
\* free list is one block, with null prev and next, that covers the rest of
\* the segment; the id returned is not zero and is no other live chain's id.
C30_FreshChain ==
    [][(steps' # steps /\ m_last'.op = "create_chain") =>
          LET c == m_last'.dst
              ct == chain_mem'[c]
              at == Len(m_last'.prefix) + AllocatorHeaderSize
          IN  /\ c # NO_CHAIN
              /\ c \notin Chains(Cur)
              /\ c \in Chains(Cur')
              /\ Len(m_last'.prefix) <= MAX_PREFIX_SIZE
              /\ ct.prefix = m_last'.prefix
              /\ HeaderPosition(ct.prefix) = Len(m_last'.prefix)
              /\ ct.first_free = at
              /\ ct.last_free = at
              /\ DOMAIN ct.blocks = {at}
              /\ ct.blocks[at].prev = SizeMax
              /\ ct.blocks[at].next = SizeMax
              /\ \E sg \in Segments(Cur', c) :
                    /\ Segments(Cur', c) = {sg}
                    /\ sg.start = 0
                    /\ sg.length >= BASE_SIZE
                    /\ at + AllocatorBlockSize + ct.blocks[at].size = sg.length]_vars
\* create_chain("MAGIC") has just returned while another chain is live.
C30_Witness ==
    /\ m_last.op = "create_chain"
    /\ m_last.prefix = "MAGIC"
    /\ m_last.dst \in Chains(Cur)
    /\ Cardinality(Chains(Cur)) >= 2
    /\ FreeBlocks(chain_mem[m_last.dst]) = <<Len("MAGIC") + AllocatorHeaderSize>>

\* The chain position get() designates for the chain a handle holds.
RootPosition(M, chain) == PositionOf(M, UniqueMappedPointer_get(M, chain))
\* C31: after construct(prefix) get() returns the address construct's
\* allocation handed out, at chain position len(prefix) + sizeof(allocator
\* header) + sizeof(block header); get() designates the same position after
\* any later allocation, growth, save or dissociate, and is null for an empty
\* handle.
C31_RootStaysPut ==
    [][steps' # steps =>
          /\ m_last'.op = "construct" =>
                /\ UniqueMappedPointer_get(Cur', handles'[m_last'.h]) = m_last'.result
                /\ RootPosition(Cur', handles'[m_last'.h])
                      = Len(m_last'.prefix) + AllocatorHeaderSize + AllocatorBlockSize
          /\ \A h \in Handles :
                /\ handles'[h] = NO_CHAIN =>
                      UniqueMappedPointer_get(Cur', handles'[h]) = nullptr
                /\ (/\ handles[h] # NO_CHAIN
                    /\ ~(m_last'.h = h /\ m_last'.op \in {"construct", "load", "reset"})) =>
                      /\ handles'[h] # NO_CHAIN
                      /\ RootPosition(Cur', handles'[h]) = RootPosition(Cur, handles[h])
                      /\ RootPosition(Cur', handles'[h])
                            = Len(chain_mem'[handles'[h]].prefix)
                                 + AllocatorHeaderSize + AllocatorBlockSize]_vars
\* A handle constructed with a prefix has been saved or dissociated after its
\* chain had grown, and holds its root.
C31_Witness ==
    \E h \in Handles :
        /\ m_last.op \in {"save", "dissociate"}
        /\ m_last.h = h
        /\ handles[h] # NO_CHAIN
        /\ chain_mem[handles[h]].prefix = "MAGIC"
        /\ chain_mem[handles[h]].size > BASE_SIZE
        /\ HasRoot(Cur, handles[h])

\* A call of connect_or_create_root has just been made on an arena of fewer
\* bytes than the root position plus the root's size.
C32_AskedOfSmallArena ==
    /\ probe'.op = "connect_or_create_root"
    /\ probe' # probe
    /\ ctx_size < reserved_space + SizeofRoot
\* C32 as stated: asking for the root of an arena whose size is smaller than
\* root position + sizeof(T) raises an error instead of returning an
\* address, and neither allocates nor changes the arena.
C32_Original ==
    [][C32_AskedOfSmallArena =>
          (probe'.out = Thrown /\ UNCHANGED arena_vars)]_vars
\* C32 amended: asking for the root of an arena whose size is at least the
\* root position but smaller than root position + sizeof(T) raises an error
\* instead of returning an address, and neither allocates nor changes the
\* arena.
C32_RootShape ==
    [][(C32_AskedOfSmallArena /\ ctx_size >= reserved_space) =>
          (probe'.out = Thrown /\ ~probe'.created /\ UNCHANGED arena_vars)]_vars
\* The root was asked of an arena that an allocator of chars had grown to
\* reach past the root position by less than the root's size.
C32_Witness ==
    /\ probe.op = "connect_or_create_root"
    /\ probe.size >= reserved_space
    /\ probe.size < reserved_space + SizeofRoot
    /\ probe.size = ctx_size
    /\ probe.out = Thrown
    /\ live # <<>>

\* -------------------------------------- calls on an empty handle

\* A step that is a call of save(fd) or dissociate() on handle h.
C33_SaveOrDissociate(h) ==
    /\ steps' # steps
    /\ m_last'.h = h
    /\ m_last'.op \in {"save", "save_throws", "dissociate", "dissociate_throws"}

\* C33: save(fd) and dissociate() on an empty handle fail with an error,
\* create no chain, destroy no chain and leave the handle empty; reset() on an
\* empty handle changes nothing, so a second reset() in a row changes nothing.
C33_EmptyHandleCalls ==
    [][\A h \in Handles :
          /\ (handles[h] = NO_CHAIN /\ C33_SaveOrDissociate(h)) =>
                 /\ m_last'.op \in {"save_throws", "dissociate_throws"}
                 /\ m_last'.destroyed = {}
                 /\ Cur' = Cur
                 /\ open_fds' = open_fds
                 /\ handles' = handles
          /\ (handles[h] = NO_CHAIN /\ steps' # steps
                /\ m_last'.h = h /\ m_last'.op = "reset") =>
                 /\ m_last'.destroyed = {}
                 /\ Cur' = Cur
                 /\ open_fds' = open_fds
                 /\ handles' = handles
          /\ (steps' # steps /\ m_last.op = "reset" /\ m_last.h = h
                /\ m_last'.h = h /\ m_last'.op = "reset") =>
                 /\ Cur' = Cur
                 /\ handles' = handles]_vars

\* A save(fd) that failed on the empty handle, after an earlier save wrote a
\* file.
C33_Witness ==
    /\ m_last.op = "save_throws"
    /\ handles[m_last.h] = NO_CHAIN
    /\ files # [fd \in Fds |-> EmptyFile]

\* --------------------------------------- one owner for each chain

\* The handles that hold the id of a chain.
Owners(chain) == {h \in DOMAIN handles : handles[h] = chain}

\* C34: every chain created through a handle is destroyed exactly once: each
\* live chain has one handle that owns it, so that none stays live with no
\* owner, and no handle holds the id of a chain that is already destroyed, so
\* that destroy_chain is not called a second time for it.
C34_DestroyedExactlyOnce ==
    /\ \A c \in Chains(Cur) : Cardinality(Owners(c)) = 1
    /\ \A h \in DOMAIN handles : handles[h] # NO_CHAIN => handles[h] \in Chains(Cur)

\* ------------------------------ a non-empty handle names a live chain

\* C35: a handle is empty or names a chain that is live and registered in
\* the Manager's indexes, after save and dissociate, also when the Manager
\* hands back the source chain's id, and after calls that fail.
C35_HandleNamesLiveChain ==
    \A h \in Handles :
        handles[h] = NO_CHAIN
            \/ (handles[h] \in DOMAIN chain_space_index /\ handles[h] \in DOMAIN chain_mem)

\* ------------------------------------- get() names an allocated block

\* C36: the address get() returns for a non-empty handle is the user data of
\* a block of the handle's chain that is allocated now, also when the chain
\* was set up by load(fd, prefix) on an empty file.
C36_GetIsAllocated ==
    \A h \in Handles :
        handles[h] # NO_CHAIN =>
            UniqueMappedPointer_get(Cur, handles[h]) \in AllocatedAddresses(Cur, handles[h])

\* ------------------------------------ CompatVector: buffers freed once

\* C37: every buffer a CompatVector obtains is deallocated at most once, and
\* its cells are not used after it is deallocated.
C37_BufferFreedOnce ==
    \A p \in DOMAIN heap : heap[p].frees <= 1 /\ ~heap[p].stale

\* ------------------------------- CompatVector as a reference sequence

\* The elements of vector v, as a sequence, given the vectors and the heap.
Elements(vs, H, v) == [i \in 1..vs[v].length |-> H[vs[v].first].cells[i]]

\* C38: resize(n) gives size n, keeps the elements below min(old size, n)
\* and zeroes the ones from the old size up to n; reserve(m) changes neither
\* the size nor an element and does not reduce the capacity; at(i) throws
\* exactly when i >= size() and otherwise designates element i; and the size
\* never exceeds the capacity.
C38_ReferenceSequence ==
    [][LET v   == v_last'.self
           n   == v_last'.n
           old == Elements(vectors, heap, v)
           new == Elements(vectors', heap', v)
       IN  /\ v_last'.op = "resize" =>
                 /\ vectors'[v].length = n
                 /\ \A i \in 1..n : new[i] = IF i <= Len(old) THEN old[i] ELSE 0
           /\ v_last'.op = "reserve" =>
                 /\ new = old
                 /\ vectors'[v].reserved_length >= vectors[v].reserved_length
                 /\ vectors'[v].reserved_length >= n
           /\ v_last'.op = "at" =>
                 /\ v_last'.threw <=> n >= Len(old)
                 /\ v_last'.threw => vectors' = vectors /\ heap' = heap
                 /\ ~v_last'.threw =>
                       /\ Len(new) = Len(old)
                       /\ \A i \in 1..Len(old) : i # n + 1 => new[i] = old[i]
           /\ \A w \in Vectors :
                 vectors'[w].exists => vectors'[w].length <= vectors'[w].reserved_length]_vars

\* A resize from one element, set to 1 by at(0), to two that took a new
\* buffer: the vector holds 1 and then 0.
C38_Witness ==
    /\ v_last.op = "resize"
    /\ v_last.n = 2
    /\ v_last.before.length = 1
    /\ v_last.before.first # vectors[v_last.self].first
    /\ Elements(vectors, heap, v_last.self) = <<1, 0>>

\* ---------------------------------- offset_ptr: copies keep the target

\* C39: the pointer a copy or move construction or assignment leaves at the
\* destination resolves to the address the source resolves to, and it is
\* null, with no error, when the source is null.
C39_CopyKeepsTarget ==
    probe.op \in {"offset_ptr(const&)", "offset_ptr(&&)", "=(const&)", "=(&&)"} =>
        IF probe.offset = SizeMax
        THEN probe.out = SizeMax
        ELSE /\ probe.out \in 0..SizeMax
             /\ offset_ptr_arrow(probe.self, probe.out)
                   = offset_ptr_arrow(probe.other, probe.offset)

\* The same for the constructions from a source that is not null.
C39_ConstructKeepsTarget ==
    (probe.op \in {"offset_ptr(const&)", "offset_ptr(&&)"} /\ probe.offset # SizeMax) =>
        /\ probe.out \in 0..SizeMax
        /\ offset_ptr_arrow(probe.self, probe.out)
              = offset_ptr_arrow(probe.other, probe.offset)

\* ------------------------------------------ PackedSet: iterating ends

\* The indexes of the non-zero slots of a table below index i.
NonZeroBelow(table, i) == {j \in 0..(i - 1) : table[j + 1] # 0}

\* C40: begin() is at the lowest non-zero slot or at end(); every ++ is at
\* the next higher non-zero slot or at end(); the slots visited so far are
\* exactly the non-zero slots below the iterator, each once and in increasing
\* order; no slot at or past the table's size is read; and the loop from
\* begin() reaches end().
C40_IterationEnds ==
    /\ [](probe.op = "iterating" =>
            /\ probe.i \in 0..Len(probe.table)
            /\ probe.i < Len(probe.table) => probe.table[probe.i + 1] # 0
            /\ probe.reads \subseteq 0..(Len(probe.table) - 1)
            /\ \A k \in 1..(Len(probe.visited) - 1) :
                   probe.visited[k] < probe.visited[k + 1]
            /\ {probe.visited[k] : k \in 1..Len(probe.visited)}
                  = NonZeroBelow(probe.table, probe.i))
    /\ <>(probe.op = "iterating" /\ probe.i = iterator_end(probe.table))

\* The loop has ended on a table whose first slot is zero, after it visited
\* two slots with a zero slot between them.
C40_Witness ==
    /\ probe.op = "iterating"
    /\ probe.i = iterator_end(probe.table)
    /\ probe.table[1] = 0
    /\ Len(probe.visited) = 2
    /\ probe.visited[2] > probe.visited[1] + 1

====
